---- MODULE Spec2Model ----
(***************************************************************************)
(* Verification model of the arbitrarium graph canvas (frontend).          *)
(*                                                                         *)
(* The repository holds three generations of the canvas:                   *)
(*   - the Cytoscape canvas      src/frontend/src/GraphView.tsx            *)
(*   - the D3 canvas GraphViewD3 src/unnamed/part_007 (used by MainLayout) *)
(*   - the modular canvas        src/unnamed/part_021 + components/graph   *)
(*                                                                         *)
(* The module holds several specifications over one set of variables; each *)
(* specification lets one part of the program move and keeps the rest at   *)
(* its constructed value:                                                  *)
(*   SpecAdapter  the payload -> node/link conversions (pure functions)    *)
(*   SpecSim      the cooling of the layout simulation, tick by tick       *)
(*   SpecRefresh  data refreshes of a canvas whose nodes have positions    *)
(*   SpecGesture  pointer gestures on the nodes of the D3 canvas            *)
(*   SpecAssign   the confirmation prompt, the mutation request and the     *)
(*                host's reaction to its outcome                             *)
(*   SpecViewport zoom and pan of the D3 canvas and of the modular canvas    *)
(*   SpecClick    clicks on the background and on nodes, per canvas          *)
(*   SpecTick     what a simulation tick draws, per canvas                    *)
(*   SpecLife     restart and stop of a simulation until after its teardown   *)
(*   SpecFetch    the entities and frames queries and the view they lead to   *)
(*   SpecPins     the pins drawn around a node, at creation and on ticks      *)
(*   SpecTouch    drag gestures of two pointers and the pins they leave        *)
(*   SpecSelect   what a change of the selection does to a D3 canvas           *)
(*   SpecLinks    the link list of the hook useGraphData                       *)
(***************************************************************************)
EXTENDS Integers, Sequences, FiniteSets, TLC

VARIABLES
    payload,      \* the entity list returned by GET /ent/?env=<id>
    adapterPc,    \* "input" before a conversion ran, "derived" after
    derived,      \* the node/link model the conversion produced
    simImpl,      \* which canvas owns the simulation: "d3" (part_007) or "modular"
    alpha,        \* simulation.alpha(), in millionths
    timerRunning, \* whether the simulation's internal timer is running
    ticks,        \* ticks performed since the simulation was last left alone
    simPos,       \* x, y of each node object of the simulation
    nodeAttr,     \* the translate(x, y) written on each node's visual group
    linkAttr,     \* x1, y1, x2, y2 written on the link's line
    nodesTransform, \* the transform attribute of the group that holds the visuals
    hostTick,     \* the host passes onSimulationTick to Graph
    tickListener, \* whose callback is the simulation's 'tick' listener
    tornDown,     \* the cleanup of the effect that created the simulation has run
    resizePending, \* the 100 ms timer of debouncedResize is pending
    isRunning,    \* React state of useGraphSimulation
    isPaused,     \* React state of Graph
    envKey,       \* the environment of the ['graph', environment] query key
    entPhase,     \* the entities query: "inflight", "retryWait", "ok" or "failed"
    entCache,     \* per key, the number of entities of the cached data (NoCache: none)
    retriesLeft,  \* retries react-query still grants the running entities fetch
    isLoading,    \* React state isLoading of GraphViewD3
    error,        \* React state error of GraphViewD3 is set
    framesFetching, \* the ['entityFrames', entities] query is fetching
    framesCache,  \* per key, what the frames query cached: "none", "ok" or "failed"
    fetchSim,     \* the simulation of the canvas: "none", "running" or "stopped"
    fetchTicks,   \* ticks the simulation performed
    pinImpl,      \* the canvas that draws the pins: "d3" or "modular"
    frameForm,    \* how the entity names its frame: "number", "string" or "object"
    frameLen,     \* the number of elements of the node's frame
    pinPhase,     \* "new" before the node's visual exists, "created" after
    ioPins,       \* the pins of the node's visual: direction and distance of each
    pinTicks,     \* ticks since the visual was created
    touchImpl,    \* the canvas the touches are on: "d3" or "modular"
    touchNode,    \* per pointer, the node its drag gesture is on (0: not down)
    timerNode,    \* per pointer, the node the pending 100 ms timer of its gesture holds
    dragCheckOf,  \* the pointer whose timer the closure variable dragCheck names
    touchDragging, \* the closure flag isDragging shared by the gestures
    touchBound,   \* per pointer, its gesture registered drag and end listeners
    touchPinned,  \* per node, fx and fy are set
    touchSelected, \* the selected node (0: none)
    selImpl,      \* the D3 canvas: "part_007" or "GraphViewD3.tsx"
    selNode,      \* React state selectedNode (0: null)
    selSims,      \* simulations created so far
    selAlpha,     \* alpha of the current simulation, in millionths
    selBuilds,    \* how often the elements of the svg were built
    selZoom,      \* the zoom step the viewport transform is at (0: the initial transform)
    selTicks,     \* ticks performed, each moving the nodes
    hookLinks,    \* React state links of useGraphData
    closureLinks, \* the links the current addLink callback closed over
    lastAdd,      \* the last addLink call: whether the link existed, what was returned
    canvasImpl,   \* the canvas a refresh is reconciled by: "d3", "modular", "cytoscape"
    snapshot,     \* the entity ids of the snapshot the canvas shows, in order
    live,         \* the live nodes of the canvas, each an id with its position
    rendered,     \* the ids of the nodes that have a visual in the document
    created,      \* the ids whose visual the last reconciliation created
    graphNodes,   \* graphData.nodes of the D3 canvas: id, x, y and the pin fx/fy
    graphLinks,   \* graphData.links of the D3 canvas
    pointer,      \* the pointer position the drag events report (event.x, event.y)
    gesture,      \* "idle", "reposition" (drag on g.node) or "assign" (drag on the circle)
    gestureNode,  \* index of the node the gesture started on (the handlers' d)
    mousemoving,  \* d3-drag: the pointer moved since the press
    isDragging,   \* closure flag of drag(simulation)
    dragCheck,    \* the 100 ms timer of dragstarted is pending
    isDraggingRef,
    dragStartNodeRef,
    dragEndPosRef,
    tempLinkShown, \* the temporary link line has display: block
    selectedNode, \* React state of the canvas
    closureSelected, \* selectedNode as captured by the handlers the effect installed
    highlighted,  \* the links of the D3 canvas drawn with the highlight style
    pinsBefore,   \* the pins of all nodes when the gesture in progress began
    lastDrop,     \* what the last finished gesture was, until the next one begins
    showAssignmentDialog,
    assignmentData,
    selectedEntity, \* host state (AppContent)
    toasts,       \* notifications raised through toast.success / toast.error
    currentEnv,   \* host state (useEnvironments), identified by its content
    requests,     \* POST /api/frame-elements/ requests in flight
    submitted,    \* number of requests sent so far
    serverSnapshot, \* per environment, the assignments the server has stored
    graphFetching, \* the ['graph', environment] query is fetching
    queryData,    \* data of the ['graph', environment] query (the canvas's entities)
    okCount,      \* requests that succeeded
    failCount,    \* requests that failed
    handlerSupplied, \* the host passed the optional prop onFrameElementAssign
    submitPhase,  \* handleAssignFrameElement for the open prompt: "none", "pending", "settled"
    viewImpl,     \* the canvas whose viewport is observed: "d3", "modular", "cytoscape"
    transform,    \* the zoom transform of the svg: x, y and the scale k in hundredths
    isPanning,    \* closure flag of the D3 canvas's background pan
    panLast,      \* lastX / lastY of the background pan
    svgPointer,   \* where the pointer is (clientX, clientY), Outside when not over the svg
    press,        \* what the pressed button went down on: "none", "background" or "node"
    zoomTween,    \* the running transition of the zoom transform: its two ends, or <<>>
    backgroundRan \* the last pointer event ran the canvas's background click handler

adapterVars == <<payload, adapterPc, derived>>

renderVars == <<simPos, nodeAttr, linkAttr, nodesTransform, hostTick, tickListener>>

fetchVars ==
    <<envKey, entPhase, entCache, retriesLeft, isLoading, error, framesFetching,
      framesCache, fetchSim, fetchTicks>>

pinVars == <<pinImpl, frameForm, frameLen, pinPhase, ioPins, pinTicks>>

touchVars ==
    <<touchImpl, touchNode, timerNode, dragCheckOf, touchDragging, touchBound,
      touchPinned, touchSelected>>

selVars == <<selImpl, selNode, selSims, selAlpha, selBuilds, selZoom, selTicks>>

linkVars == <<hookLinks, closureLinks, lastAdd>>

extVars == <<fetchVars, pinVars, touchVars, selVars, linkVars>>

lifeVars == <<tornDown, resizePending, isRunning, isPaused, extVars>>

simVars == <<simImpl, alpha, timerRunning, ticks, renderVars, lifeVars>>

refreshVars == <<canvasImpl, snapshot, live, rendered, created>>

canvasVars == <<graphNodes, graphLinks>>

pointerVars ==
    <<pointer, gesture, gestureNode, mousemoving, isDragging, dragCheck,
      isDraggingRef, dragStartNodeRef, dragEndPosRef, tempLinkShown,
      pinsBefore, lastDrop>>

selectionVars == <<selectedNode, closureSelected, highlighted>>

dialogVars == <<showAssignmentDialog, assignmentData>>

hostVars == <<selectedEntity, toasts>>

gestureVars == <<canvasVars, pointerVars, selectionVars, dialogVars, hostVars>>

submitVars == <<handlerSupplied, submitPhase>>

assignVars ==
    <<currentEnv, requests, submitted, serverSnapshot, graphFetching, queryData,
      okCount, failCount, submitVars>>

viewVars ==
    <<viewImpl, transform, isPanning, panLast, svgPointer, press, zoomTween,
      backgroundRan>>

vars ==
    <<payload, adapterPc, derived, simImpl, alpha, timerRunning, ticks, renderVars,
      lifeVars,
      canvasImpl, snapshot, live, rendered, created, gestureVars, assignVars,
      viewVars>>

-----------------------------------------------------------------------------
(* Values.  A JavaScript `undefined` field is the reserved string Undef.   *)

Undef == "<undefined>"

\* JavaScript truthiness of a string-or-undefined value.
Truthy(v) == v # Undef /\ v # ""

\* `${v}` : a template literal prints undefined as the text "undefined".
TemplateStr(v) == IF v = Undef THEN "undefined" ELSE v

\* The ids an entity of a bounded payload may carry (Undef: the field is missing).
EntityIdValues == {Undef, "", "1", "2"}

\* What a relatedTo field or an element value may reference; "9" is the id of no entity.
ReferenceValues == {Undef, "1", "9"}

ElementNames == {"addressee"}

MaxEntities == 2

\* A frame element {name, value}.
ElementValues == [name : ElementNames, value : ReferenceValues \ {Undef}]

\* A frame field of an entity: missing, or a frame carrying a list of elements.
NoFrame == [present |-> FALSE, elements |-> <<>>]

FrameValues == {NoFrame} \cup {[present |-> TRUE, elements |-> <<e>>] : e \in ElementValues}

EntityValues ==
    [id : EntityIdValues,
     relatedTo : ReferenceValues,
     relationships : {<<>>, <<"2">>},
     frames : FrameValues,
     primary_frame : FrameValues]

Payloads == UNION {[1..n -> EntityValues] : n \in 0..MaxEntities}

\* The payload of the specification's scenario: Jury (1) and Player (2), whose frame f1
\* has the element addressee with value "1".
JuryPlayerPayload ==
    << [id |-> "1", relatedTo |-> Undef, relationships |-> <<>>,
        frames |-> NoFrame, primary_frame |-> NoFrame],
       [id |-> "2", relatedTo |-> Undef, relationships |-> <<>>,
        frames |-> [present |-> TRUE,
                    elements |-> <<[name |-> "addressee", value |-> "1"]>>],
        primary_frame |-> NoFrame] >>

-----------------------------------------------------------------------------
(* Sequence helpers.                                                       *)

RECURSIVE Concat(_)
\* Array.prototype.flatMap / forEach-with-push: the concatenation, in order, of the
\* sequences ss[1], ss[2], ...
Concat(ss) ==
    IF ss = <<>> THEN <<>> ELSE Head(ss) \o Concat(Tail(ss))

SeqRange(s) == {s[i] : i \in DOMAIN s}

NodeIds(nodes) == {nodes[i].id : i \in DOMAIN nodes}

-----------------------------------------------------------------------------
(* GraphViewD3 (part_007): graphData = useMemo(..., [entities]).           *)

\* entity.id.toString() raises a TypeError when the id is undefined.
D3Throws(entities) == \E i \in DOMAIN entities : entities[i].id = Undef

D3Node(entity) == [id |-> entity.id, kind |-> "entity"]

D3Nodes(entities) == [i \in DOMAIN entities |-> D3Node(entities[i])]

\* relatedIds: relatedTo when truthy, followed by the relationships.
D3RelatedIds(entity) ==
    (IF Truthy(entity.relatedTo) THEN <<entity.relatedTo>> ELSE <<>>)
        \o entity.relationships

\* One link per related id whose source and target are both in nodeMap.
D3LinksOf(entities, entity) ==
    LET ids == NodeIds(D3Nodes(entities))
        keep(r) == IF entity.id \in ids /\ r \in ids
                   THEN <<[source |-> entity.id, target |-> r,
                           kind |-> Undef, label |-> Undef]>>
                   ELSE <<>>
    IN Concat([i \in DOMAIN D3RelatedIds(entity) |-> keep(D3RelatedIds(entity)[i])])

D3Links(entities) ==
    Concat([i \in DOMAIN entities |-> D3LinksOf(entities, entities[i])])

graphData(entities) ==
    IF Len(entities) = 0
    THEN [threw |-> FALSE, nodes |-> <<>>, links |-> <<>>]
    ELSE IF D3Throws(entities)
    THEN [threw |-> TRUE, nodes |-> <<>>, links |-> <<>>]
    ELSE [threw |-> FALSE, nodes |-> D3Nodes(entities), links |-> D3Links(entities)]

-----------------------------------------------------------------------------
(* Modular GraphView (part_021): nodes and links useMemo.                  *)

ModularNode(e) == [id |-> "entity-" \o TemplateStr(e.id), kind |-> "entity"]

ModularNodes(entities) == [i \in DOMAIN entities |-> ModularNode(entities[i])]

\* One link per element of the primary frame whose value is truthy; the target id is
\* built from the value without looking it up among the entities.
ModularLinksOf(e) ==
    LET link(el) == IF Truthy(el.value)
                    THEN <<[source |-> "entity-" \o TemplateStr(e.id),
                            target |-> "entity-" \o TemplateStr(el.value),
                            kind |-> "element", label |-> Undef]>>
                    ELSE <<>>
    IN IF ~e.primary_frame.present THEN <<>>
       ELSE Concat([i \in DOMAIN e.primary_frame.elements |->
                        link(e.primary_frame.elements[i])])

ModularLinks(entities) ==
    Concat([i \in DOMAIN entities |-> ModularLinksOf(entities[i])])

ModularGraph(entities) ==
    [threw |-> FALSE, nodes |-> ModularNodes(entities), links |-> ModularLinks(entities)]

-----------------------------------------------------------------------------
(* Cytoscape GraphView (GraphView.tsx): elements.                          *)

\* data.id = id || '' ; the element list holds nodes only.
CytoscapeElement(entity) ==
    [id |-> IF Truthy(entity.id) THEN entity.id ELSE "", kind |-> "entity"]

elements(data) ==
    [threw |-> FALSE,
     nodes |-> [i \in DOMAIN data |-> CytoscapeElement(data[i])],
     links |-> <<>>]

-----------------------------------------------------------------------------
(* SpecAdapter: a bounded payload, converted once by one of the canvases.  *)

NoModel == [impl |-> "none", threw |-> FALSE, nodes |-> <<>>, links |-> <<>>]

Converted(impl, g) ==
    [impl |-> impl, threw |-> g.threw, nodes |-> g.nodes, links |-> g.links]

\* The adapter part before any payload arrived.
AdapterIdle ==
    /\ payload = <<>>
    /\ adapterPc = "input"
    /\ derived = NoModel

NoCache == 0 - 1

\* The queries of the D3 canvas before the component is mounted.
FetchIdle ==
    /\ envKey = "e1"
    /\ entPhase = "ok"
    /\ entCache = [k \in {"e1", "e2"} |-> NoCache]
    /\ retriesLeft = 0
    /\ isLoading = TRUE
    /\ error = FALSE
    /\ framesFetching = FALSE
    /\ framesCache = [k \in {"e1", "e2"} |-> "none"]
    /\ fetchSim = "none"
    /\ fetchTicks = 0

\* No node visual has been drawn.
PinIdle ==
    /\ pinImpl = "d3"
    /\ frameForm = "number"
    /\ frameLen = 0
    /\ pinPhase = "new"
    /\ ioPins = <<>>
    /\ pinTicks = 0

\* No pointer is down and no node is pinned.
TouchIdle ==
    /\ touchImpl = "d3"
    /\ touchNode = [p \in 1..2 |-> 0]
    /\ timerNode = [p \in 1..2 |-> 0]
    /\ dragCheckOf = 0
    /\ touchDragging = FALSE
    /\ touchBound = [p \in 1..2 |-> FALSE]
    /\ touchPinned = [n \in 1..2 |-> FALSE]
    /\ touchSelected = 0

\* No canvas is mounted.
SelIdle ==
    /\ selImpl = "part_007"
    /\ selNode = 0
    /\ selSims = 0
    /\ selAlpha = 0
    /\ selBuilds = 0
    /\ selZoom = 0
    /\ selTicks = 0

NoAdd == [existed |-> FALSE, returned |-> "none"]

\* The hook holds no link.
LinkIdle ==
    /\ hookLinks = <<>>
    /\ closureLinks = <<>>
    /\ lastAdd = NoAdd

ExtIdle == FetchIdle /\ PinIdle /\ TouchIdle /\ SelIdle /\ LinkIdle

\* Nothing is torn down, pending or paused.
LifeIdle ==
    /\ tornDown = FALSE
    /\ resizePending = FALSE
    /\ isRunning = FALSE
    /\ isPaused = FALSE
    /\ ExtIdle

\* No visual has been drawn.
RenderIdle ==
    /\ simPos = <<>>
    /\ nodeAttr = <<>>
    /\ linkAttr = <<>>
    /\ nodesTransform = [k |-> 0, x |-> 0, y |-> 0]
    /\ hostTick = FALSE
    /\ tickListener = "none"

\* The simulation part before a simulation was created.
SimIdle ==
    /\ simImpl = "none"
    /\ alpha = 0
    /\ timerRunning = FALSE
    /\ ticks = 0
    /\ RenderIdle
    /\ LifeIdle

\* The canvas before any snapshot was shown.
RefreshIdle ==
    /\ canvasImpl = "none"
    /\ snapshot = <<>>
    /\ live = <<>>
    /\ rendered = {}
    /\ created = {}

\* No drop has finished yet.
NoDrop == [kind |-> "none", moved |-> FALSE, overOther |-> FALSE, pinned |-> FALSE]

\* No pointer gesture in progress and none finished (the refs as useRef initialised them).
PointerIdle ==
    /\ gesture = "idle"
    /\ gestureNode = 0
    /\ mousemoving = FALSE
    /\ isDragging = FALSE
    /\ dragCheck = FALSE
    /\ isDraggingRef = FALSE
    /\ dragStartNodeRef = ""
    /\ dragEndPosRef = <<>>
    /\ tempLinkShown = FALSE
    /\ pinsBefore = <<>>
    /\ lastDrop = NoDrop

\* The useState initial values of the canvas and of the host.
SelectionIdle ==
    /\ selectedNode = ""
    /\ closureSelected = ""
    /\ highlighted = {}
    /\ selectedEntity = ""

DialogIdle ==
    /\ showAssignmentDialog = FALSE
    /\ assignmentData = <<>>

\* The D3 canvas without data.
GestureIdle ==
    /\ graphNodes = <<>>
    /\ graphLinks = {}
    /\ pointer = [x |-> 0, y |-> 0]
    /\ PointerIdle
    /\ SelectionIdle
    /\ DialogIdle
    /\ toasts = <<>>

\* No button is pressed.
NoPress == "none"

\* The viewport part before a canvas set up its zoom behaviour and its listeners.
ViewIdle ==
    /\ viewImpl = "none"
    /\ transform = [k |-> 0, x |-> 0, y |-> 0]
    /\ isPanning = FALSE
    /\ panLast = [x |-> 0, y |-> 0]
    /\ svgPointer = [x |-> 0, y |-> 0]
    /\ press = NoPress
    /\ zoomTween = <<>>
    /\ backgroundRan = FALSE

Envs == {"e1", "e2"}

\* The query has no data: entities falls back to its default [].
NoData == [env |-> "", stored |-> {}]

\* No environment chosen, nothing sent, nothing fetched.
AssignIdle ==
    /\ currentEnv = ""
    /\ requests = <<>>
    /\ submitted = 0
    /\ serverSnapshot = [e \in Envs |-> {}]
    /\ graphFetching = FALSE
    /\ queryData = NoData
    /\ okCount = 0
    /\ failCount = 0
    /\ handlerSupplied = TRUE
    /\ submitPhase = "none"

InitAdapter ==
    /\ payload \in Payloads
    /\ adapterPc = "input"
    /\ derived = NoModel
    /\ SimIdle
    /\ ViewIdle
    /\ RefreshIdle
    /\ GestureIdle
    /\ AssignIdle

DeriveGraphData ==
    /\ adapterPc = "input"
    /\ derived' = Converted("d3", graphData(payload))
    /\ adapterPc' = "derived"
    /\ UNCHANGED <<payload, simVars, refreshVars, gestureVars, assignVars, viewVars>>

DeriveModular ==
    /\ adapterPc = "input"
    /\ derived' = Converted("modular", ModularGraph(payload))
    /\ adapterPc' = "derived"
    /\ UNCHANGED <<payload, simVars, refreshVars, gestureVars, assignVars, viewVars>>

DeriveElements ==
    /\ adapterPc = "input"
    /\ derived' = Converted("cytoscape", elements(payload))
    /\ adapterPc' = "derived"
    /\ UNCHANGED <<payload, simVars, refreshVars, gestureVars, assignVars, viewVars>>

NextAdapter ==
    \/ DeriveGraphData
    \/ DeriveModular
    \/ DeriveElements

SpecAdapter == InitAdapter /\ [][NextAdapter]_vars

-----------------------------------------------------------------------------
(* The layout simulation's heat.  alpha is kept in millionths; d3-force's  *)
(* step is  alpha += (alphaTarget - alpha) * alphaDecay,  then the tick    *)
(* listeners, then the timer stops when alpha < alphaMin.                  *)

AlphaOne == 1000 * 1000

\* d3-force default alphaMin = 0.001 (neither canvas changes it).
AlphaMin == AlphaOne \div 1000

\* Decay rates in ten-thousandths.
DecayUnit == 100 * 100

\* GraphViewD3: simulation.alphaDecay(0.05)
D3AlphaDecay == 500

\* GraphViewD3: simulation.alphaTarget(0.1)
D3AlphaTarget == AlphaOne \div 10

\* useGraphSimulation keeps d3-force's defaults: alphaDecay = 1 - 0.001^(1/300)
\* (0.0228), alphaTarget = 0.
ModularAlphaDecay == 228

ModularAlphaTarget == 0 * AlphaOne

\* simulation.alpha(0.3): the resize handler, dragended, useGraphSimulation's effects.
AlphaReheat == (3 * AlphaOne) \div 10

\* simulation.alpha(0.5): dragged.
AlphaDragging == AlphaOne \div 2

MaxTicks == 310

AlphaDecayOf(impl) == IF impl = "d3" THEN D3AlphaDecay ELSE ModularAlphaDecay

AlphaTargetOf(impl) == IF impl = "d3" THEN D3AlphaTarget ELSE ModularAlphaTarget

\* alpha after one tick of d3-force.
CooledAlpha(a, target, decay) == a + (((target - a) * decay) \div DecayUnit)

\* Init: a simulation that was just (re)heated.  GraphViewD3's effect sets alpha(1)
\* and its initial handleResize() alpha(0.3); a drag leaves 0.5 or 0.3 behind.
InitSim ==
    /\ AdapterIdle
    /\ ViewIdle
    /\ RefreshIdle
    /\ GestureIdle
    /\ AssignIdle
    /\ simImpl \in {"d3", "modular"}
    /\ alpha \in (IF simImpl = "d3" THEN {AlphaOne, AlphaDragging, AlphaReheat}
                                     ELSE {AlphaReheat})
    /\ timerRunning = TRUE
    /\ ticks = 0
    /\ RenderIdle
    /\ LifeIdle

\* One timer step of GraphViewD3's simulation.
TickD3 ==
    /\ simImpl = "d3"
    /\ timerRunning
    /\ ticks < MaxTicks
    /\ alpha' = CooledAlpha(alpha, D3AlphaTarget, D3AlphaDecay)
    /\ timerRunning' = ~(alpha' < AlphaMin)
    /\ ticks' = ticks + 1
    /\ UNCHANGED <<simImpl, renderVars, lifeVars, adapterVars, refreshVars, gestureVars,
                   assignVars, viewVars>>

\* One timer step of useGraphSimulation's simulation.  The tick listener stores a new
\* node array in React state; Graph renders again and calls useGraphSimulation without
\* a config, so config is a fresh {} and both effects run again: the cleanup stops the
\* simulation and the effects call simulation.alpha(0.3).restart().
TickModular ==
    /\ simImpl = "modular"
    /\ timerRunning
    /\ ticks < MaxTicks
    /\ alpha' = AlphaReheat
    /\ timerRunning' = TRUE
    /\ ticks' = ticks + 1
    /\ UNCHANGED <<simImpl, renderVars, lifeVars, adapterVars, refreshVars, gestureVars,
                   assignVars, viewVars>>

NextSim ==
    \/ TickD3
    \/ TickModular

SpecSim == InitSim /\ [][NextSim]_vars

-----------------------------------------------------------------------------
(* Data refresh.  A snapshot is the list of entity ids of one fetched      *)
(* payload (the server's ids are distinct); a live node is an id with its  *)
(* current position, in pixels of the simulation's coordinate system.      *)

SnapshotIds == {"1", "2", "3"}

MaxNodes == 3

Snapshots ==
    {s \in UNION {[1..n -> SnapshotIds] : n \in 0..MaxNodes} :
        \A i, j \in DOMAIN s : i # j => s[i] # s[j]}

\* Positions move on a grid of GridStep pixels inside [-MaxCoord, MaxCoord].
GridStep == 10

MaxCoord == 15

Point(px, py) == [x |-> px, y |-> py]

\* d3-force gives a node without x/y the phyllotaxis position of its index i (from 0):
\* radius 10 * sqrt(0.5 + i), angle i * pi * (3 - sqrt 5), rounded here to a pixel.
Phyllotaxis(i) ==
    CASE i = 1 -> Point(7, 0)
      [] i = 2 -> Point(0 - 9, 8)
      [] i = 3 -> Point(1, 0 - 16)
      [] OTHER -> Point(11, 15)

\* d3.forceSimulation(nodes) / simulation.nodes(nodes) on node objects that were just
\* built from the entities and so carry no x, y: every node gets its index position.
FreshNodes(ids) == [i \in DOMAIN ids |-> [id |-> ids[i], pos |-> Phyllotaxis(i)]]

LiveIds(nodes) == {nodes[i].id : i \in DOMAIN nodes}

\* The live node with the given id (ids of live nodes are distinct).
LiveNode(nodes, id) == nodes[CHOOSE i \in DOMAIN nodes : nodes[i].id = id]

RECURSIVE KeepIds(_, _)
\* The nodes whose id is in `ids`, in their order.
KeepIds(nodes, ids) ==
    IF nodes = <<>> THEN <<>>
    ELSE (IF Head(nodes).id \in ids THEN <<Head(nodes)>> ELSE <<>>)
             \o KeepIds(Tail(nodes), ids)

RECURSIVE AddedNodes(_, _)
\* cy.add(toAdd): the elements whose id is not yet in the graph, at their declared
\* position {x: 0, y: 0}.
AddedNodes(ids, currentIds) ==
    IF ids = <<>> THEN <<>>
    ELSE (IF Head(ids) \in currentIds THEN <<>>
          ELSE <<[id |-> Head(ids), pos |-> Point(0, 0)]>>)
             \o AddedNodes(Tail(ids), currentIds)

\* GraphView.tsx updateGraph: remember the positions, remove the elements that left,
\* add the new ones, put the remembered positions back on the nodes that stayed.
\* The effect returns before updateGraph when the element list is empty.
updateGraph(nodes, ids) ==
    IF ids = <<>> THEN nodes ELSE
    LET positions == [id \in LiveIds(nodes) |-> LiveNode(nodes, id).pos]
        kept == KeepIds(nodes, {ids[i] : i \in DOMAIN ids})
        updatedNodes == kept \o AddedNodes(ids, LiveIds(nodes))
    IN [i \in DOMAIN updatedNodes |->
           IF updatedNodes[i].id \in DOMAIN positions
           THEN [id |-> updatedNodes[i].id, pos |-> positions[updatedNodes[i].id]]
           ELSE updatedNodes[i]]

\* GraphViewD3: graphData is rebuilt from the new entities (fresh node objects) and the
\* simulation effect runs again: it stops the old simulation, and unless the node list
\* is empty builds a new one on graphData.nodes and redraws every node.
ReconcileD3(nodes, ids) == FreshNodes(ids)

\* Modular canvas: the nodes useMemo of GraphView builds fresh node objects and
\* useGraphSimulation hands them to simulation.nodes(nodes).
ReconcileModular(nodes, ids) == FreshNodes(ids)

InBounds(p) ==
    /\ p.x >= 0 - MaxCoord /\ p.x <= MaxCoord
    /\ p.y >= 0 - MaxCoord /\ p.y <= MaxCoord

Steps == {0 - GridStep, 0, GridStep}

InitRefresh ==
    /\ AdapterIdle
    /\ ViewIdle
    /\ SimIdle
    /\ GestureIdle
    /\ AssignIdle
    /\ canvasImpl \in {"d3", "modular", "cytoscape"}
    /\ snapshot \in Snapshots
    /\ live = IF canvasImpl = "cytoscape" THEN updateGraph(<<>>, snapshot)
                                          ELSE FreshNodes(snapshot)
    /\ rendered = SeqRange(snapshot)
    /\ created = SeqRange(snapshot)

\* A node moves: a tick of the force simulation, a layout run, or a reposition drag.
MoveNode ==
    \E i \in DOMAIN live : \E dx, dy \in Steps :
        /\ <<dx, dy>> # <<0, 0>>
        /\ InBounds(Point(live[i].pos.x + dx, live[i].pos.y + dy))
        /\ live' = [live EXCEPT ![i].pos = Point(live[i].pos.x + dx, live[i].pos.y + dy)]
        /\ UNCHANGED <<canvasImpl, snapshot, rendered, created, adapterVars, simVars,
                       gestureVars, assignVars, viewVars>>

\* A fetch returns a snapshot that differs from the one shown.  D3 canvas: the
\* simulation effect runs again on the new graphData; svg.selectAll('*').remove()
\* takes every element out of the svg and the data join on the emptied group
\* appends a g.node for every node of the new data.
RefreshD3 ==
    \E new \in Snapshots \ {snapshot} :
        /\ canvasImpl = "d3"
        /\ snapshot' = new
        /\ live' = ReconcileD3(live, new)
        /\ rendered' = SeqRange(new)
        /\ created' = SeqRange(new)
        /\ UNCHANGED <<canvasImpl, adapterVars, simVars, gestureVars, assignVars, viewVars>>

\* D3 canvas: the ['graph', environment] query fetches again while it has data (the
\* user came back to an environment that is still in the query cache) and the
\* payload equals the one shown.  The query function calls setIsLoading(true), so the
\* component returns the loading placeholder and the svg is unmounted;
\* setIsLoading(false) mounts a new, empty svg.  react-query hands out the previous
\* data reference for an equal payload, so graphData, frameElementsMap and
\* dimensions are the same and the simulation effect does not run: nothing is
\* drawn into the new svg, while the simulation keeps its nodes.
RefetchSameD3 ==
    /\ canvasImpl = "d3"
    /\ snapshot # <<>>
    /\ rendered' = {}
    /\ created' = {}
    /\ UNCHANGED <<canvasImpl, snapshot, live, adapterVars, simVars, gestureVars,
                   assignVars, viewVars>>

\* Modular canvas, a new snapshot of the environment shown: GraphNodes renders one
\* <g key={node.id}> per node, so React keeps the element of a key that stays,
\* removes those of the keys that left and creates those of the new keys.
RefreshModular ==
    \E new \in Snapshots \ {snapshot} :
        /\ canvasImpl = "modular"
        /\ snapshot' = new
        /\ live' = ReconcileModular(live, new)
        /\ rendered' = SeqRange(new)
        /\ created' = SeqRange(new) \ rendered
        /\ UNCHANGED <<canvasImpl, adapterVars, simVars, gestureVars, assignVars, viewVars>>

\* Cytoscape canvas, a new snapshot of the environment shown: updateGraph adds the
\* elements whose id is not in the graph and removes those that left; for an empty
\* list the effect returns early and the elements prop of CytoscapeComponent, which
\* is patched into the graph on every render, removes what is left.
RefreshCytoscape ==
    \E new \in Snapshots \ {snapshot} :
        /\ canvasImpl = "cytoscape"
        /\ snapshot' = new
        /\ live' = IF new = <<>> THEN <<>> ELSE updateGraph(live, new)
        /\ rendered' = LiveIds(live')
        /\ created' = LiveIds(AddedNodes(new, LiveIds(live)))
        /\ UNCHANGED <<canvasImpl, adapterVars, simVars, gestureVars, assignVars, viewVars>>

NextRefresh ==
    \/ MoveNode
    \/ RefreshD3
    \/ RefetchSameD3
    \/ RefreshModular
    \/ RefreshCytoscape

SpecRefresh == InitRefresh /\ [][NextRefresh]_vars

-----------------------------------------------------------------------------
(* Pointer gestures on the D3 canvas.  Two drag behaviours are installed   *)
(* on every node: drag(simulation) on the node's group, which is the       *)
(* reposition drag, and a second one on the node's circle that only        *)
(* accepts a press with Ctrl/Cmd held, which is the assignment drag.  The  *)
(* circle's behaviour stops the press from reaching the group, so exactly  *)
(* one of them handles a gesture.  Both dispatch start on the press, drag  *)
(* on every pointer move and end on the release.                           *)

GestureIds == <<"1", "2">>

GridX == {10, 25, 40}

GridY == {10, 40}

GesturePoints == {Point(px, py) : px \in GridX, py \in GridY}

\* Math.sqrt(dx * dx + dy * dy) < 20
HitRadius == 20

\* How far a tick of the simulation moves an unpinned node at most.
MaxDrift == 15

GraphNode(id, p) == [id |-> id, x |-> p.x, y |-> p.y, fxy |-> <<>>]

Pins(nodes) == [i \in DOMAIN nodes |-> nodes[i].fxy]

Dist2(n, p) == (n.x - p.x) * (n.x - p.x) + (n.y - p.y) * (n.y - p.y)

\* The predicate handleNodeDragEnd hands to find: a node without x or without y (also
\* one whose coordinate is 0) is skipped.
IsHit(n, p) == n.x # 0 /\ n.y # 0 /\ Dist2(n, p) < HitRadius * HitRadius

\* graphData.nodes.find(...): the first node of the array that is hit, 0 for undefined.
FindTargetNode(nodes, p) ==
    IF \E i \in DOMAIN nodes : IsHit(nodes[i], p)
    THEN CHOOSE i \in DOMAIN nodes :
             IsHit(nodes[i], p) /\ \A j \in 1..(i - 1) : ~IsHit(nodes[j], p)
    ELSE 0

\* The prompt is in the document: {showAssignmentDialog && assignmentData && (...)}.
\* Its backdrop covers the whole window, so no pointer event reaches the canvas.
DialogRendered == showAssignmentDialog /\ assignmentData # <<>>

\* const newSelectedNode = d === selectedNode ? null : d, with the selectedNode the
\* handler closed over.
NewSelectedNode(id) == IF id = closureSelected THEN "" ELSE id

\* The links the three style callbacks give the highlight style
\* (#ff7f0e, opacity 1, width 2.5) for the selected node sel: none if sel is null,
\* else those whose sourceId or targetId is sel.id.  Every other link gets a
\* default style.
IncidentLinks(links, sel) ==
    IF sel = "" THEN {} ELSE {l \in links : l.source = sel \/ l.target = sel}

\* d.fx = d.x; d.fy = d.y
PinnedInPlace(n) == [n EXCEPT !.fxy = <<n.x, n.y>>]

\* d.fx = event.x; d.fy = event.y
PinnedAt(n, p) == [n EXCEPT !.fxy = <<p.x, p.y>>]

\* A release that leaves fx and fy as the drag set them.
StillPinned(n) == n

\* d.fx = null; d.fy = null
Released(n) == [n EXCEPT !.fxy = <<>>]

\* d3-force: a node with fx/fy set is put there on every tick.
Snapped(n) == IF n.fxy = <<>> THEN n ELSE [n EXCEPT !.x = n.fxy[1], !.y = n.fxy[2]]

InitGesture ==
    /\ AdapterIdle
    /\ ViewIdle
    /\ SimIdle
    /\ RefreshIdle
    /\ AssignIdle
    /\ \E pl \in [DOMAIN GestureIds -> GesturePoints] :
           /\ \A i, j \in DOMAIN pl : i # j => pl[i] # pl[j]
           /\ graphNodes = [i \in DOMAIN GestureIds |-> GraphNode(GestureIds[i], pl[i])]
    /\ graphLinks \in {{}, {[source |-> "1", target |-> "2"]}}
    /\ pointer = Point(10, 10)
    /\ PointerIdle
    /\ SelectionIdle
    /\ DialogIdle
    /\ toasts = <<>>

\* A press of the primary button on the circle of node i.
MouseDown ==
    \E i \in DOMAIN graphNodes : \E modifier \in BOOLEAN :
        /\ gesture = "idle"
        /\ ~DialogRendered
        /\ pointer' = Point(graphNodes[i].x, graphNodes[i].y)
        /\ gestureNode' = i
        /\ mousemoving' = FALSE
        /\ pinsBefore' = Pins(graphNodes)
        /\ lastDrop' = NoDrop
        /\ IF modifier
           THEN \* handleNodeDragStart
                /\ gesture' = "assign"
                /\ isDraggingRef' = TRUE
                /\ dragStartNodeRef' = graphNodes[i].id
                /\ tempLinkShown' = TRUE
                /\ UNCHANGED dragCheck
           ELSE \* dragstarted
                /\ gesture' = "reposition"
                /\ dragCheck' = TRUE
                /\ UNCHANGED <<isDraggingRef, dragStartNodeRef, tempLinkShown>>
        /\ UNCHANGED <<canvasVars, isDragging, dragEndPosRef, selectionVars,
                       dialogVars, hostVars, adapterVars, simVars, refreshVars,
                       assignVars, viewVars>>

\* The callback of setTimeout(..., 100) in dragstarted.
DragCheckFires ==
    /\ dragCheck
    /\ dragCheck' = FALSE
    /\ IF ~isDragging
       THEN /\ isDragging' = TRUE
            /\ graphNodes' =
                   [graphNodes EXCEPT ![gestureNode] = PinnedInPlace(graphNodes[gestureNode])]
       ELSE UNCHANGED <<isDragging, graphNodes>>
    /\ UNCHANGED <<graphLinks, pointer, gesture, gestureNode, mousemoving, isDraggingRef,
                   dragStartNodeRef, dragEndPosRef, tempLinkShown, pinsBefore, lastDrop,
                   selectionVars, dialogVars, hostVars, adapterVars, simVars,
                   refreshVars, assignVars, viewVars>>

\* A pointer move while the button is down.
MouseMove ==
    \E p \in GesturePoints \ {pointer} :
        /\ gesture # "idle"
        /\ pointer' = p
        /\ mousemoving' = TRUE
        /\ IF gesture = "reposition"
           THEN \* dragged
                /\ graphNodes' =
                       IF isDragging
                       THEN [graphNodes EXCEPT ![gestureNode] = PinnedAt(graphNodes[gestureNode], p)]
                       ELSE graphNodes
                /\ UNCHANGED dragEndPosRef
           ELSE \* handleNodeDrag
                /\ dragEndPosRef' = IF isDraggingRef THEN <<p.x, p.y>> ELSE dragEndPosRef
                /\ UNCHANGED graphNodes
        /\ UNCHANGED <<graphLinks, gesture, gestureNode, isDragging, dragCheck,
                       isDraggingRef, dragStartNodeRef, tempLinkShown, pinsBefore,
                       lastDrop, selectionVars, dialogVars, hostVars, adapterVars,
                       simVars, refreshVars, assignVars, viewVars>>

\* Some node other than the one the gesture started on lies within the hit radius of p.
OverOther(nodes, s, p) ==
    \E t \in DOMAIN nodes : t # s /\ Dist2(nodes[t], p) < HitRadius * HitRadius

\* The release of the button.  The end handler of the behaviour that took the press
\* runs; the browser's click event follows on the circle unless the pointer moved
\* (d3-drag suppresses it then), and handleNodeClick ignores it when Ctrl/Cmd is held.
MouseUp ==
    /\ gesture # "idle"
    /\ gesture' = "idle"
    /\ gestureNode' = 0
    /\ pinsBefore' = <<>>
    /\ lastDrop' = [kind |-> gesture, moved |-> mousemoving,
                    overOther |-> OverOther(graphNodes, gestureNode, pointer),
                    pinned |-> isDragging]
    /\ IF gesture = "reposition"
       THEN \* dragended, then handleNodeClick
            /\ dragCheck' = FALSE
            /\ isDragging' = FALSE
            /\ graphNodes' =
                   IF isDragging
                   THEN [graphNodes EXCEPT ![gestureNode] = Released(graphNodes[gestureNode])]
                   ELSE graphNodes
            /\ IF ~isDragging \/ ~mousemoving
               THEN /\ selectedNode' = NewSelectedNode(graphNodes[gestureNode].id)
                    /\ selectedEntity' = NewSelectedNode(graphNodes[gestureNode].id)
               ELSE UNCHANGED <<selectedNode, selectedEntity>>
            /\ highlighted' =
                   IF ~mousemoving
                   THEN \* handleNodeClick restyles every .link
                        IncidentLinks(graphLinks, NewSelectedNode(graphNodes[gestureNode].id))
                   ELSE highlighted
            /\ UNCHANGED <<isDraggingRef, dragStartNodeRef, dragEndPosRef, tempLinkShown,
                           dialogVars>>
       ELSE \* handleNodeDragEnd
            LET targetNode ==
                    IF dragEndPosRef # <<>>
                    THEN FindTargetNode(graphNodes, Point(dragEndPosRef[1], dragEndPosRef[2]))
                    ELSE 0
                dropped ==
                    /\ targetNode # 0
                    /\ dragStartNodeRef # ""
                    /\ graphNodes[targetNode].id # dragStartNodeRef
            IN /\ tempLinkShown' = FALSE
               /\ assignmentData' =
                      IF dropped
                      THEN [frameId |-> dragStartNodeRef,
                            elementId |-> graphNodes[targetNode].id]
                      ELSE assignmentData
               /\ showAssignmentDialog' = (dropped \/ showAssignmentDialog)
               /\ isDraggingRef' = FALSE
               /\ dragStartNodeRef' = ""
               /\ dragEndPosRef' = <<>>
               /\ UNCHANGED <<graphNodes, isDragging, dragCheck, selectedNode,
                              selectedEntity, highlighted>>
    /\ UNCHANGED <<graphLinks, pointer, mousemoving, closureSelected, toasts,
                   adapterVars, simVars, refreshVars, assignVars, viewVars>>

\* A tick of the simulation: pinned nodes are put on their pin, and the forces may
\* move one unpinned node (k = 0: none) by at most MaxDrift.
Tick ==
    \E k \in 0..Len(graphNodes) : \E q \in GesturePoints :
        /\ k = 0 => q = Point(10, 10)
        /\ k # 0 =>
               /\ graphNodes[k].fxy = <<>>
               /\ q # Point(graphNodes[k].x, graphNodes[k].y)
               /\ q.x - graphNodes[k].x \in (0 - MaxDrift)..MaxDrift
               /\ q.y - graphNodes[k].y \in (0 - MaxDrift)..MaxDrift
        /\ graphNodes' =
               [i \in DOMAIN graphNodes |->
                   IF i = k THEN [graphNodes[i] EXCEPT !.x = q.x, !.y = q.y]
                   ELSE Snapped(graphNodes[i])]
        /\ UNCHANGED <<graphLinks, pointerVars, selectionVars, dialogVars, hostVars,
                       adapterVars, simVars, refreshVars, assignVars, viewVars>>

\* The Cancel button of the prompt: onClick={() => setShowAssignmentDialog(false)}.
CancelDialog ==
    /\ DialogRendered
    /\ showAssignmentDialog' = FALSE
    /\ UNCHANGED <<assignmentData, canvasVars, pointerVars, selectionVars, hostVars,
                   adapterVars, simVars, refreshVars, assignVars, viewVars>>

\* The simulation effect runs again (the frame data arrived or the dimensions changed)
\* while no gesture is in progress: the same node objects are handed to a new
\* simulation, every element is drawn anew, and the handlers installed see the
\* current selectedNode and a fresh drag(simulation) closure.
EffectRerun ==
    /\ gesture = "idle"
    /\ closureSelected' = selectedNode
    /\ highlighted' = IncidentLinks(graphLinks, selectedNode)
    /\ isDragging' = FALSE
    /\ tempLinkShown' = FALSE
    /\ UNCHANGED <<canvasVars, pointer, gesture, gestureNode, mousemoving, dragCheck,
                   isDraggingRef, dragStartNodeRef, dragEndPosRef, pinsBefore, lastDrop,
                   selectedNode, dialogVars, hostVars, adapterVars, simVars,
                   refreshVars, assignVars, viewVars>>

NextGesture ==
    \/ MouseDown
    \/ DragCheckFires
    \/ MouseMove
    \/ MouseUp
    \/ Tick
    \/ CancelDialog
    \/ EffectRerun

SpecGesture == InitGesture /\ [][NextGesture]_vars

-----------------------------------------------------------------------------
(* The confirmation prompt, the mutation request and the host.  The host   *)
(* (AppContent with useEnvironments, MainLayout) owns the current          *)
(* environment and the selected entity; the canvas owns the prompt and     *)
(* the ['graph', environment] query.  react-query identifies a query by    *)
(* the content of its key, so the environment is represented by its        *)
(* content: a copy {...currentEnv} is the same key.  The server is         *)
(* represented by the assignments it has stored per environment; a         *)
(* payload of GET /ent/?env=<id> carries the entities "1" and "2" and      *)
(* the assignments stored when it was produced.                            *)

RoleNames == {"agent"}

\* Requests sent during one behaviour.
MaxSubmits == 2

Last(seq) == seq[Len(seq)]

Without(seq, k) == [i \in 1..(Len(seq) - 1) |-> IF i < k THEN seq[i] ELSE seq[i + 1]]

\* The payload the server returns for an environment.
ServerPayload(env) == [env |-> env, stored |-> serverSnapshot[env]]

\* graphData of a payload: one node object per entity, built without x and y and so
\* placed by the simulation, and the links the entities' relations give.
PayloadNodes(data) ==
    IF data = NoData THEN <<>>
    ELSE [i \in DOMAIN GestureIds |-> GraphNode(GestureIds[i], Phyllotaxis(i))]

PayloadLinks(data) ==
    {[source |-> a.frameId, target |-> a.elementId] : a \in data.stored}

\* handleEnvSelected: selectEnvironment(env); setSelectedEntity(null).
SelectedAfterEnvSelected(sel) == ""

\* The try block of handleFrameElementAssign ends with onEnvSelected({...currentEnv}).
SelectedAfterSuccess(sel) == SelectedAfterEnvSelected(sel)

\* A catch block that would also call onEnvSelected.
SelectedAfterFailureReselecting(sel) == SelectedAfterEnvSelected(sel)

\* The catch block of handleFrameElementAssign logs and raises the toast only.
SelectedAfterFailure(sel) == sel

InitAssign ==
    /\ AdapterIdle
    /\ ViewIdle
    /\ SimIdle
    /\ RefreshIdle
    /\ currentEnv \in Envs
    /\ requests = <<>>
    /\ submitted = 0
    /\ serverSnapshot = [e \in Envs |-> {}]
    /\ graphFetching = FALSE
    /\ queryData = ServerPayload(currentEnv)
    /\ okCount = 0
    /\ failCount = 0
    /\ handlerSupplied \in BOOLEAN
    /\ submitPhase = "none"
    /\ graphNodes = <<GraphNode("1", Point(10, 10)), GraphNode("2", Point(40, 10))>>
    /\ graphLinks = {}
    /\ pointer = Point(10, 10)
    /\ PointerIdle
    /\ SelectionIdle
    /\ DialogIdle
    /\ toasts = <<>>

\* The user picks an environment in the sidebar: onEnvSelected(env).  A key with another
\* content is a new query: it has no data yet and starts fetching.
SelectEnv ==
    \E env \in Envs :
        /\ ~DialogRendered
        /\ currentEnv' = env
        /\ selectedEntity' = SelectedAfterEnvSelected(selectedEntity)
        /\ IF env # currentEnv
           THEN /\ graphFetching' = TRUE
                /\ queryData' = NoData
                /\ graphNodes' = PayloadNodes(NoData)
                /\ graphLinks' = PayloadLinks(NoData)
           ELSE UNCHANGED <<graphFetching, queryData, graphNodes, graphLinks>>
        /\ UNCHANGED <<requests, submitted, serverSnapshot, okCount, failCount,
                       submitVars, pointerVars, selectionVars, dialogVars, toasts,
                       adapterVars, simVars, refreshVars, viewVars>>

\* The fetch of the ['graph', environment] query returns: graphData is rebuilt and the
\* simulation effect runs on the new nodes.
FetchDone ==
    /\ graphFetching
    /\ graphFetching' = FALSE
    /\ queryData' = ServerPayload(currentEnv)
    /\ graphNodes' = PayloadNodes(ServerPayload(currentEnv))
    /\ graphLinks' = PayloadLinks(ServerPayload(currentEnv))
    /\ closureSelected' = selectedNode
    /\ highlighted' = IncidentLinks(graphLinks', selectedNode)
    /\ UNCHANGED <<currentEnv, requests, submitted, serverSnapshot, okCount, failCount,
                   submitVars, pointerVars, selectedNode, dialogVars, hostVars,
                   adapterVars, simVars, refreshVars, viewVars>>

\* A click on a node (handleNodeClick).
SelectNode ==
    \E i \in DOMAIN graphNodes :
        /\ ~DialogRendered
        /\ selectedNode' = NewSelectedNode(graphNodes[i].id)
        /\ selectedEntity' = NewSelectedNode(graphNodes[i].id)
        /\ highlighted' = IncidentLinks(graphLinks, NewSelectedNode(graphNodes[i].id))
        /\ UNCHANGED <<closureSelected, canvasVars, pointerVars, dialogVars, toasts,
                       assignVars, adapterVars, simVars, refreshVars, viewVars>>

\* An assignment drag from node s is dropped on node t (handleNodeDragEnd).
DropOnNode ==
    \E s, t \in DOMAIN graphNodes :
        /\ s # t
        /\ ~DialogRendered
        /\ assignmentData' = [frameId |-> graphNodes[s].id, elementId |-> graphNodes[t].id]
        /\ showAssignmentDialog' = TRUE
        /\ submitPhase' = "none"
        /\ UNCHANGED <<canvasVars, pointerVars, selectionVars, hostVars, currentEnv,
                       requests, submitted, serverSnapshot, graphFetching, queryData,
                       okCount, failCount, handlerSupplied, adapterVars, simVars,
                       refreshVars, viewVars>>

\* Enter in the role input or the Assign button, with a non-empty role:
\* handleAssignFrameElement returns at once when there is no stored assignment or no
\* onFrameElementAssign; otherwise it calls onFrameElementAssign, which sends the POST,
\* and waits for it.
Submit ==
    \E role \in RoleNames :
        /\ DialogRendered
        /\ IF ~handlerSupplied
           THEN /\ submitPhase' = "settled"
                /\ UNCHANGED <<requests, submitted>>
           ELSE /\ submitted < MaxSubmits
                /\ requests' = Append(requests,
                       [frameId |-> assignmentData.frameId,
                        elementId |-> assignmentData.elementId,
                        role |-> role, env |-> currentEnv])
                /\ submitted' = submitted + 1
                /\ submitPhase' = "pending"
        /\ UNCHANGED <<currentEnv, serverSnapshot, graphFetching, queryData, okCount,
                       failCount, handlerSupplied, gestureVars, adapterVars, simVars,
                       refreshVars, viewVars>>

\* The endpoint answers a request with success.  handleFrameElementAssign raises the
\* success toast and calls onEnvSelected with a copy of the environment it was rendered
\* with; then the finally block of handleAssignFrameElement closes the prompt.
ResponseOk ==
    \E k \in DOMAIN requests :
        LET req == requests[k]
        IN /\ requests' = Without(requests, k)
           /\ okCount' = okCount + 1
           /\ serverSnapshot' =
                  [serverSnapshot EXCEPT ![req.env] =
                      @ \cup {[frameId |-> req.frameId, elementId |-> req.elementId,
                               role |-> req.role]}]
           /\ toasts' = Append(toasts, "success")
           /\ currentEnv' = req.env
           /\ selectedEntity' = SelectedAfterSuccess(selectedEntity)
           /\ IF req.env # currentEnv
              THEN /\ graphFetching' = TRUE
                   /\ queryData' = NoData
                   /\ graphNodes' = PayloadNodes(NoData)
                   /\ graphLinks' = PayloadLinks(NoData)
              ELSE UNCHANGED <<graphFetching, queryData, graphNodes, graphLinks>>
           /\ showAssignmentDialog' = FALSE
           /\ assignmentData' = <<>>
           /\ submitPhase' = "settled"
           /\ UNCHANGED <<submitted, failCount, handlerSupplied, pointerVars,
                          selectionVars, adapterVars, simVars, refreshVars, viewVars>>

\* The endpoint rejects a request, or the request fails: apiRequest throws, the catch
\* block of handleFrameElementAssign raises the error toast, and the finally block of
\* handleAssignFrameElement closes the prompt.
ResponseFail ==
    \E k \in DOMAIN requests :
        /\ requests' = Without(requests, k)
        /\ failCount' = failCount + 1
        /\ toasts' = Append(toasts, "error")
        /\ selectedEntity' = SelectedAfterFailure(selectedEntity)
        /\ showAssignmentDialog' = FALSE
        /\ assignmentData' = <<>>
        /\ submitPhase' = "settled"
        /\ UNCHANGED <<currentEnv, submitted, serverSnapshot, graphFetching, queryData,
                       okCount, handlerSupplied, canvasVars, pointerVars, selectionVars,
                       adapterVars, simVars, refreshVars, viewVars>>

NextAssign ==
    \/ SelectEnv
    \/ FetchDone
    \/ SelectNode
    \/ DropOnNode
    \/ Submit
    \/ ResponseOk
    \/ ResponseFail
    \/ CancelDialog

SpecAssign == InitAssign /\ [][NextAssign]_vars

-----------------------------------------------------------------------------
(* The viewport.  The D3 canvas (part_007) and the modular canvas           *)
(* (useGraphZoom) install a d3.zoom behaviour on the svg; the zoom          *)
(* transform (k, x, y) maps a graph point g to the screen point k*g + (x,y). *)
(* The scale k is kept in hundredths.  d3-zoom clamps the scale of wheel    *)
(* zooms and of scaleBy/scaleTo to scaleExtent; zoom.transform applies the  *)
(* transform it is given as it is; on a transition it tweens the transform  *)
(* from the current one with d3.interpolateZoom, frame by frame.            *)

ScaleUnit == 10 * 10

\* scaleExtent([0.1, 4])
MinScale == ScaleUnit \div 10

MaxScale == 4 * ScaleUnit

\* d3.zoomIdentity.translate(...).scale(0.9)
InitialScale == (9 * ScaleUnit) \div 10

\* dimensions.width and dimensions.height of the svg.
ViewSize == 20

\* How far the viewport may be panned from the centre of the view, in pixels.
MaxPan == 20

Centre == Point(ViewSize \div 2, ViewSize \div 2)

\* The pointer is not over the svg.
Outside == Point(-1, -1)

\* Where the pointer may be over the svg (clientX, clientY).
SvgPoints == {Point(px, ViewSize \div 2) : px \in {ViewSize \div 2, ViewSize}}

Min2(a, b) == IF a < b THEN a ELSE b

Max2(a, b) == IF a > b THEN a ELSE b

\* d3-zoom scale(): k = Math.max(scaleExtent[0], Math.min(scaleExtent[1], k))
ClampScale(k) == Max2(MinScale, Min2(MaxScale, k))

\* d3-zoom translate(scale(t, k1), p, t.invert(p)): the scale becomes the clamped k1
\* and the graph point under the screen point p stays under it.
ScaleTo(t, k1, p) ==
    LET k == ClampScale(k1)
    IN  [k |-> k,
         x |-> p.x - ((p.x - t.x) * k) \div t.k,
         y |-> p.y - ((p.y - t.y) * k) \div t.k]

\* zoom.scaleBy(selection, f), wheel and dblclick zooms: f in hundredths.
ScaleBy(t, f, p) == ScaleTo(t, (t.k * f) \div ScaleUnit, p)

\* currentTransform.translate(dx, dy): the pointer's distance taken as a distance
\* of the graph.
TranslateByGraphDistance(t, dx, dy) ==
    [k |-> t.k,
     x |-> t.x + (t.k * dx) \div ScaleUnit,
     y |-> t.y + (t.k * dy) \div ScaleUnit]

\* currentTransform.translate(dx / currentTransform.k, dy / currentTransform.k);
\* transform.translate(tx, ty) is (k, x + k * tx, y + k * ty).
TranslateBy(t, dx, dy) == [k |-> t.k, x |-> t.x + dx, y |-> t.y + dy]

\* const initialZoom = d3.zoomIdentity.translate(width / 2, height / 2).scale(0.9)
initialZoom == [k |-> InitialScale, x |-> ViewSize \div 2, y |-> ViewSize \div 2]

\* d3.zoomIdentity, the __zoom of an element no transform was applied to.
zoomIdentity == [k |-> ScaleUnit, x |-> 0, y |-> 0]

\* resetZoom of useGraphZoom: scale = 0.9 / Math.max(1, width / dimensions.width,
\* height / dimensions.height) with width, height taken from dimensions.
resetTransform ==
    LET scale == InitialScale \div Max2(1, Max2(ViewSize \div ViewSize, ViewSize \div ViewSize))
    IN  [k |-> scale,
         x |-> (ViewSize - (ViewSize * scale) \div ScaleUnit) \div 2,
         y |-> (ViewSize - (ViewSize * scale) \div ScaleUnit) \div 2]

\* panTo of useGraphZoom: the graph point g goes to the centre, the scale is kept.
panToTransform(t, g) ==
    [k |-> t.k,
     x |-> ViewSize \div 2 - (g.x * t.k) \div ScaleUnit,
     y |-> ViewSize \div 2 - (g.y * t.k) \div ScaleUnit]

\* The graph point panTo is called with.
PanTargets == {Point(0, 0)}

\* Wheel zooms multiply the scale by 2 ^ (-deltaY * 0.002 * (ctrlKey ? 10 : 1)): a
\* pinch or a fast scroll either way.
WheelFactors == {ScaleUnit \div 4, 4 * ScaleUnit}

InPanRange(t) ==
    /\ t.x - Centre.x \in -MaxPan..MaxPan
    /\ t.y - Centre.y \in -MaxPan..MaxPan

RECURSIVE SqrtBetween(_, _, _)
\* The largest r in lo..hi with r * r <= n, for lo * lo <= n.
SqrtBetween(n, lo, hi) ==
    IF lo >= hi THEN lo
    ELSE LET mid == (lo + hi + 1) \div 2
         IN  IF mid * mid <= n THEN SqrtBetween(n, mid, hi)
                               ELSE SqrtBetween(n, lo, mid - 1)

\* Math.sqrt, rounded down.
ISqrt(n) == SqrtBetween(n, 0, 40000)

\* The view d3-zoom's tween interpolates: the graph point at the centre of the svg
\* and the width of graph the svg shows,  a.invert(p).concat(w / a.k).
ViewOf(t) ==
    [x |-> ((Centre.x - t.x) * ScaleUnit) \div t.k,
     y |-> ((Centre.y - t.y) * ScaleUnit) \div t.k,
     w |-> (ViewSize * ScaleUnit) \div t.k]

\* d1 of d3.interpolateZoom: the distance between the centres of the two views.
TweenDistance(a, b) ==
    LET v0 == ViewOf(a)
        v1 == ViewOf(b)
    IN  ISqrt((v1.x - v0.x) * (v1.x - v0.x) + (v1.y - v0.y) * (v1.y - v0.y))

\* d3.interpolateZoom from view v0 to view v1 shows the width
\*     w0 * cosh(r0) / cosh(rho * s + r0)
\* along its path, with r0 = ln(sqrt(b0^2 + 1) - b0), r1 likewise, rho^2 = 2 and
\*     b0 = (w1^2 - w0^2 + 4 d^2) / (4 w0 d),  b1 = (w1^2 - w0^2 - 4 d^2) / (4 w1 d).
\* The path passes through its widest view, of width w0 * sqrt(b0^2 + 1), strictly
\* between its ends when r0 < 0 < r1, that is when b0 > 0 > b1.
HasWidest(a, b) ==
    LET v0 == ViewOf(a)
        v1 == ViewOf(b)
        d1 == TweenDistance(a, b)
        dw == v1.w * v1.w - v0.w * v0.w
    IN  /\ d1 > 0
        /\ dw + 4 * d1 * d1 > 0
        /\ dw - 4 * d1 * d1 < 0

\* The transform of the frame that shows the widest view of the tween from a to b:
\* k = w / width, x = p.x - centre.x * k.  The centre has moved the fraction
\* w0 * b0 / (2 d) of the way.  b0 and cosh(r0) are kept in hundredths.
WidestFrame(a, b) ==
    LET v0 == ViewOf(a)
        v1 == ViewOf(b)
        d1 == TweenDistance(a, b)
        b0 == ((v1.w * v1.w - v0.w * v0.w) * ScaleUnit) \div (4 * v0.w * d1)
                  + (d1 * ScaleUnit) \div v0.w
        coshr0 == ISqrt(ScaleUnit * ScaleUnit + b0 * b0)
        width == (v0.w * coshr0) \div ScaleUnit
        u == (v0.w * b0) \div (2 * d1)
        cx == v0.x + (u * (v1.x - v0.x)) \div ScaleUnit
        cy == v0.y + (u * (v1.y - v0.y)) \div ScaleUnit
        k == (ViewSize * ScaleUnit) \div width
    IN  [k |-> k,
         x |-> Centre.x - (cx * k) \div ScaleUnit,
         y |-> Centre.y - (cy * k) \div ScaleUnit]

\* A transition of the zoom transform that has not shown a frame yet.
Tween(a, b) == [from |-> a, to |-> b, framed |-> FALSE]

PressTargets == {"background", "node"}

\* A canvas is mounted with nothing selected and the pointer outside of it.
InitViewport ==
    /\ AdapterIdle
    /\ SimIdle
    /\ RefreshIdle
    /\ GestureIdle
    /\ AssignIdle
    /\ viewImpl \in {"d3", "modular"}
    /\ transform = IF viewImpl = "d3" THEN initialZoom ELSE zoomIdentity
    /\ isPanning = FALSE
    /\ panLast = Point(0, 0)
    /\ svgPointer = Outside
    /\ press = NoPress
    /\ zoomTween = <<>>
    /\ backgroundRan = FALSE

\* What neither the pointer nor the zoom controls touch.
viewRest ==
    <<viewImpl, backgroundRan, gestureVars, adapterVars, simVars, refreshVars,
      assignVars>>

\* The pointer comes over the svg of the D3 canvas at q.  (The pointer gestures are
\* followed on the D3 canvas, the zoom controls on the modular canvas.)
MouseEnter ==
    \E q \in SvgPoints :
        /\ viewImpl = "d3"
        /\ svgPointer = Outside
        /\ svgPointer' = q
        /\ UNCHANGED <<transform, isPanning, panLast, press, zoomTween, viewRest>>

\* The pointer leaves the svg with no button pressed or during a pan:
\* svg.on('mouseleave', endPan).
MouseLeave ==
    /\ svgPointer # Outside
    /\ press \in {"none", "background"}
    /\ svgPointer' = Outside
    /\ isPanning' = FALSE
    /\ press' = "none"
    /\ UNCHANGED <<transform, panLast, zoomTween, viewRest>>

\* mousedown: svg.on('mousedown') starts a pan if event.target === this.  A press
\* on a node is taken by the node's d3-drag, which stops the event.
MouseDownOn ==
    \E target \in PressTargets :
        /\ svgPointer # Outside
        /\ press = "none"
        /\ press' = target
        /\ IF target = "background"
           THEN /\ isPanning' = TRUE
                /\ panLast' = svgPointer
           ELSE UNCHANGED <<isPanning, panLast>>
        /\ UNCHANGED <<transform, svgPointer, zoomTween, viewRest>>

\* mousemove to q: svg.on('mousemove'); the pan applies its transform with
\* selection.call(zoom.transform, newTransform), which interrupts a running
\* transition.  A drag of a node stops its events before they reach the svg.
MouseMoveTo ==
    \E q \in SvgPoints :
        /\ svgPointer # Outside
        /\ q # svgPointer
        /\ svgPointer' = q
        /\ IF isPanning
           THEN /\ transform' = TranslateBy(transform, q.x - panLast.x, q.y - panLast.y)
                /\ InPanRange(transform')
                /\ panLast' = q
                /\ zoomTween' = <<>>
           ELSE UNCHANGED <<transform, panLast, zoomTween>>
        /\ UNCHANGED <<isPanning, press, viewRest>>

\* mouseup: svg.on('mouseup', endPan).
MouseUpOn ==
    /\ svgPointer # Outside
    /\ press # "none"
    /\ press' = "none"
    /\ isPanning' = FALSE
    /\ UNCHANGED <<transform, panLast, svgPointer, zoomTween, viewRest>>

\* wheel at the pointer, handled by d3-zoom's wheeled: it returns before anything
\* else if the clamped scale equals the current one, otherwise it interrupts a
\* running transition and zooms about the pointer.
Wheel ==
    \E f \in WheelFactors :
        /\ svgPointer # Outside
        /\ IF ClampScale((transform.k * f) \div ScaleUnit) = transform.k
           THEN UNCHANGED <<transform, zoomTween>>
           ELSE /\ transform' = ScaleBy(transform, f, svgPointer)
                /\ InPanRange(transform')
                /\ zoomTween' = <<>>
        /\ UNCHANGED <<isPanning, panLast, svgPointer, press, viewRest>>

\* dblclick on the background: svg.transition().duration(750)
\* .call(zoom.transform, initialZoom); d3-zoom's own dblclick.zoom was removed.
DblClick ==
    /\ svgPointer # Outside
    /\ press = "none"
    /\ zoomTween' = Tween(transform, initialZoom)
    /\ UNCHANGED <<transform, isPanning, panLast, svgPointer, press, viewRest>>

\* zoomIn of useGraphZoom: scaleBy 1.2 about the centre of the svg, on a transition
\* that replaces a running one.  The two ends of that transition show the same
\* graph point at the centre, so it moves the scale from one end to the other
\* monotonically.
zoomIn ==
    /\ viewImpl = "modular"
    /\ transform' = ScaleBy(transform, (12 * ScaleUnit) \div 10, Centre)
    /\ InPanRange(transform')
    /\ zoomTween' = <<>>
    /\ UNCHANGED <<isPanning, panLast, svgPointer, press, viewRest>>

\* zoomOut of useGraphZoom: scaleBy 0.8, likewise.
zoomOut ==
    /\ viewImpl = "modular"
    /\ transform' = ScaleBy(transform, (8 * ScaleUnit) \div 10, Centre)
    /\ InPanRange(transform')
    /\ zoomTween' = <<>>
    /\ UNCHANGED <<isPanning, panLast, svgPointer, press, viewRest>>

\* resetZoom of useGraphZoom: svg.transition().duration(750).call(zoom.transform, t)
resetZoom ==
    /\ viewImpl = "modular"
    /\ zoomTween' = Tween(transform, resetTransform)
    /\ UNCHANGED <<transform, isPanning, panLast, svgPointer, press, viewRest>>

\* panTo(x, y) of useGraphZoom.
panTo ==
    \E g \in PanTargets :
        /\ viewImpl = "modular"
        /\ InPanRange(panToTransform(transform, g))
        /\ zoomTween' = Tween(transform, panToTransform(transform, g))
        /\ UNCHANGED <<transform, isPanning, panLast, svgPointer, press, viewRest>>

\* A frame of the running transition: the one that shows the widest view of its
\* path.  g.zoom(null, t) stores the frame's transform as it is and the zoom
\* listener applies it to the graph's group.
TweenFrame ==
    /\ zoomTween # <<>>
    /\ ~zoomTween.framed
    /\ HasWidest(zoomTween.from, zoomTween.to)
    /\ WidestFrame(zoomTween.from, zoomTween.to).k > 0
    /\ transform' = WidestFrame(zoomTween.from, zoomTween.to)
    /\ zoomTween' = [zoomTween EXCEPT !.framed = TRUE]
    /\ UNCHANGED <<isPanning, panLast, svgPointer, press, viewRest>>

\* The last frame of the transition: t === 1 applies the target itself.
TweenEnd ==
    /\ zoomTween # <<>>
    /\ transform' = zoomTween.to
    /\ zoomTween' = <<>>
    /\ UNCHANGED <<isPanning, panLast, svgPointer, press, viewRest>>

NextViewport ==
    \/ MouseEnter
    \/ MouseLeave
    \/ MouseDownOn
    \/ MouseMoveTo
    \/ MouseUpOn
    \/ Wheel
    \/ DblClick
    \/ zoomIn
    \/ zoomOut
    \/ resetZoom
    \/ panTo
    \/ TweenFrame
    \/ TweenEnd

SpecViewport == InitViewport /\ [][NextViewport]_vars

-----------------------------------------------------------------------------
(* Clicks.  A click is a press and a release at one place.  The three       *)
(* canvases listen differently: the D3 canvas has a click listener on each  *)
(* node's circle and none on the background; the modular canvas has one     *)
(* onClick on the container around the svg; the Cytoscape canvas listens to *)
(* cytoscape's tapstart and tap.                                            *)

ClickTargets == {"background"} \cup {GestureIds[i] : i \in DOMAIN GestureIds}

\* What no click touches.
clickRest ==
    <<viewImpl, transform, svgPointer, zoomTween, canvasVars, pointerVars,
      closureSelected, dialogVars, toasts, adapterVars, simVars, refreshVars,
      assignVars>>

\* A canvas is mounted with nothing selected and the pointer somewhere over it.
InitClick ==
    /\ AdapterIdle
    /\ SimIdle
    /\ RefreshIdle
    /\ GestureIdle
    /\ AssignIdle
    /\ viewImpl \in {"d3", "modular", "cytoscape"}
    /\ transform = IF viewImpl = "d3" THEN initialZoom ELSE zoomIdentity
    /\ isPanning = FALSE
    /\ panLast = Point(0, 0)
    /\ svgPointer \in SvgPoints
    /\ press = NoPress
    /\ zoomTween = <<>>
    /\ backgroundRan = FALSE

\* The press of a click.  D3 canvas: svg.on('mousedown') starts a pan if the target
\* is the svg itself.  Cytoscape canvas: cy.on('tapstart') runs handleBackgroundTap,
\* onEntitySelect(null), if e.target === cy.  The modular canvas does nothing yet:
\* dragStarted of a node returns at  if (!event.active) return,  event.active being
\* 0 when the first gesture starts.
PressOn ==
    \E target \in ClickTargets :
        /\ press = NoPress
        /\ press' = target
        /\ IF viewImpl = "d3" /\ target = "background"
           THEN /\ isPanning' = TRUE
                /\ panLast' = svgPointer
           ELSE UNCHANGED <<isPanning, panLast>>
        /\ IF viewImpl = "cytoscape" /\ target = "background"
           THEN /\ selectedEntity' = ""
                /\ backgroundRan' = TRUE
           ELSE /\ backgroundRan' = FALSE
                /\ UNCHANGED selectedEntity
        /\ UNCHANGED <<selectedNode, highlighted, clickRest>>

\* The release of the click and the click event that follows it.  D3 canvas: endPan;
\* on a node, dragended's click branch and handleNodeClick toggle the selection; on
\* the background nothing listens.  Modular canvas: no node handles the click, so
\* every click bubbles to the container's onClick={handleBackgroundClick}.
\* Cytoscape canvas: cy.on('tap', 'node') calls onEntitySelect(entity).
ReleaseClick ==
    /\ press # NoPress
    /\ press' = NoPress
    /\ isPanning' = FALSE
    /\ CASE viewImpl = "d3" /\ press # "background" ->
                /\ selectedNode' = NewSelectedNode(press)
                /\ selectedEntity' = selectedNode'
                /\ highlighted' = IncidentLinks(graphLinks, selectedNode')
                /\ UNCHANGED backgroundRan
         [] viewImpl = "modular" ->
                /\ selectedNode' = ""
                /\ selectedEntity' = ""
                /\ backgroundRan' = TRUE
                /\ UNCHANGED highlighted
         [] viewImpl = "cytoscape" /\ press # "background" ->
                /\ selectedEntity' = press
                /\ UNCHANGED <<selectedNode, highlighted, backgroundRan>>
         [] OTHER ->
                UNCHANGED <<selectedNode, selectedEntity, highlighted, backgroundRan>>
    /\ UNCHANGED <<panLast, clickRest>>

\* The simulation effect of the D3 canvas runs again between two clicks.
RerunBetweenClicks ==
    /\ viewImpl = "d3"
    /\ press = NoPress
    /\ EffectRerun

NextClick ==
    \/ PressOn
    \/ ReleaseClick
    \/ RerunBetweenClicks

SpecClick == InitClick /\ [][NextClick]_vars

-----------------------------------------------------------------------------
(* Drawing on a tick.  The simulation moves the node objects; a 'tick'      *)
(* listener writes the positions on the visuals.  A d3 simulation has one   *)
(* listener per event name: simulation.on('tick', f) replaces the listener  *)
(* registered before and simulation.on('tick', null) removes it.  A visual  *)
(* is shown where the transform attributes of its ancestors put its own     *)
(* translate.                                                               *)

TickNodes == 1..2

TickPoints == {Point(px, py) : px \in {10, 20}, py \in {10, 20}}

\* The zoom transforms a zoom event may bring.
TickTransforms == {zoomIdentity, initialZoom, [k |-> 2 * ScaleUnit, x |-> 10, y |-> 0]}

\* translate(t.x, t.y) scale(t.k) applied to the point p.
ApplyTransform(t, p) ==
    Point((t.k * p.x) \div ScaleUnit + t.x, (t.k * p.y) \div ScaleUnit + t.y)

\* The line of the link from node 1 to node 2 drawn between the positions pos.
LinkEnds(pos) == [x1 |-> pos[1].x, y1 |-> pos[1].y, x2 |-> pos[2].x, y2 |-> pos[2].y]

\* The canvas is mounted and its simulation created; nothing has ticked.  D3 canvas:
\* the g.node groups have no transform yet, svg.call(zoom.transform, initialZoom)
\* has run, and the links and nodes groups hang directly under the svg.  Modular
\* canvas: useGraphSimulation registered its own tick listener.
InitTick ==
    /\ AdapterIdle
    /\ RefreshIdle
    /\ GestureIdle
    /\ AssignIdle
    /\ simImpl \in {"d3", "modular"}
    /\ alpha = 0
    /\ timerRunning = TRUE
    /\ ticks = 0
    /\ viewImpl = simImpl
    /\ transform = IF simImpl = "d3" THEN initialZoom ELSE zoomIdentity
    /\ isPanning = FALSE
    /\ panLast = Point(0, 0)
    /\ svgPointer = Point(0, 0)
    /\ press = NoPress
    /\ zoomTween = <<>>
    /\ backgroundRan = FALSE
    /\ simPos \in [TickNodes -> TickPoints]
    /\ nodeAttr = [i \in TickNodes |-> Point(0, 0)]
    /\ linkAttr = LinkEnds(nodeAttr)
    /\ nodesTransform = zoomIdentity
    /\ hostTick \in BOOLEAN
    /\ simImpl = "d3" => ~hostTick
    /\ tickListener = IF simImpl = "d3" THEN "canvas" ELSE "hook"
    /\ LifeIdle

\* What drawing leaves alone.
tickRest ==
    <<simImpl, alpha, timerRunning, ticks, lifeVars, viewImpl, isPanning, panLast,
      svgPointer, press, zoomTween, backgroundRan, adapterVars, refreshVars,
      gestureVars, assignVars>>

\* One tick: the forces move a node, then the registered listener runs.
\*   canvas  the listener of the D3 canvas sets x1..y2 of the links and the
\*           translate of every g.node from the node objects;
\*   hook    useGraphSimulation's listener stores a new node array in state, and
\*           GraphNodes and GraphLinks render from it;
\*   host    Graph's tickHandler hands the nodes to the host.  If the host renders
\*           Graph again, GraphNodes reads the moved node objects, and GraphLinks
\*           keeps the endpoints it memoised for the unchanged node array.
\*   none    nobody listens.
SimulationTick ==
    \E i \in TickNodes : \E p \in TickPoints \ {simPos[i]} : \E rerender \in BOOLEAN :
        /\ tickListener # "host" => ~rerender
        /\ simPos' = [simPos EXCEPT ![i] = p]
        /\ nodeAttr' = IF tickListener \in {"canvas", "hook"} \/ rerender
                       THEN simPos' ELSE nodeAttr
        /\ linkAttr' = IF tickListener \in {"canvas", "hook"}
                       THEN LinkEnds(simPos') ELSE linkAttr
        /\ UNCHANGED <<transform, nodesTransform, hostTick, tickListener, tickRest>>

\* Graph's effect on [simulation, onSimulationTick] once the simulation exists:
\* simulation.on('tick', tickHandler).
RegisterHostTick ==
    /\ simImpl = "modular"
    /\ hostTick
    /\ tickListener = "hook"
    /\ tickListener' = "host"
    /\ UNCHANGED <<simPos, nodeAttr, linkAttr, transform, nodesTransform, hostTick,
                   tickRest>>

\* The host stops passing onSimulationTick: the effect's cleanup runs
\* simulation.on('tick', null) and the effect registers nothing.
UnregisterHostTick ==
    /\ tickListener = "host"
    /\ hostTick' = FALSE
    /\ tickListener' = "none"
    /\ UNCHANGED <<simPos, nodeAttr, linkAttr, transform, nodesTransform, tickRest>>

\* A zoom event.  D3 canvas: the handler writes the transform on g.graph-container,
\* which holds no visual.  Modular canvas: on .graph-content, which holds them all.
ZoomEvent ==
    \E t \in TickTransforms \ {transform} :
        /\ transform' = t
        /\ nodesTransform' = IF simImpl = "modular" THEN t ELSE nodesTransform
        /\ UNCHANGED <<simPos, nodeAttr, linkAttr, hostTick, tickListener, tickRest>>

NextTick ==
    \/ SimulationTick
    \/ RegisterHostTick
    \/ UnregisterHostTick
    \/ ZoomEvent

SpecTick == InitTick /\ [][NextTick]_vars

-----------------------------------------------------------------------------
(* The life of a simulation: created by an effect, restarted by handlers,   *)
(* stopped by the effect's cleanup.  simulation.restart() starts the        *)
(* simulation's timer and simulation.stop() stops it; a stopped simulation   *)
(* does not tick.  After the cleanup has run, timerRunning and ticks are    *)
(* those of the simulation that was torn down.                              *)

MaxLifeTicks == 8

\* A canvas is mounted and its simulation is running at alpha 0.3 (the D3 canvas
\* ends its effect with handleResize(), useGraphSimulation with alpha(0.3).restart()).
\* useGraphSimulation calls setIsRunning(true) when it creates the simulation.
InitLife ==
    /\ AdapterIdle
    /\ RefreshIdle
    /\ GestureIdle
    /\ AssignIdle
    /\ ViewIdle
    /\ RenderIdle
    /\ simImpl \in {"d3", "modular"}
    /\ alpha = AlphaReheat
    /\ timerRunning = TRUE
    /\ ticks = 0
    /\ tornDown = FALSE
    /\ resizePending = FALSE
    /\ isRunning = (simImpl = "modular")
    /\ isPaused = FALSE
    /\ ExtIdle

\* What the life of the simulation leaves alone.
lifeRest ==
    <<simImpl, renderVars, canvasVars, pointer, gestureNode,
      isDraggingRef, dragStartNodeRef, dragEndPosRef, tempLinkShown, pinsBefore,
      lastDrop, selectionVars, dialogVars, hostVars, adapterVars, refreshVars,
      assignVars, viewVars, extVars>>

\* D3 canvas, dragstarted: a press on a node of the mounted canvas arms the
\* 100 ms timer.
LifePress ==
    /\ simImpl = "d3"
    /\ ~tornDown
    /\ gesture = "idle"
    /\ gesture' = "reposition"
    /\ dragCheck' = TRUE
    /\ UNCHANGED <<isDragging, timerRunning, ticks, lifeVars, alpha, mousemoving, lifeRest>>

\* The callback of the 100 ms timer: if (!isDragging) { isDragging = true;
\* if (!event.active) simulation.alphaTarget(0.1).restart(); ... }, event.active
\* being 0 for the start event.  The effect's cleanup does not clear this timer.
LifeDragCheckFires ==
    /\ dragCheck
    /\ dragCheck' = FALSE
    /\ IF ~isDragging
       THEN /\ isDragging' = TRUE
            /\ timerRunning' = TRUE
       ELSE UNCHANGED <<isDragging, timerRunning>>
    /\ UNCHANGED <<gesture, ticks, lifeVars, alpha, mousemoving, lifeRest>>

\* dragged, dispatched by d3-drag's mousemove listener on the window:
\* if (!isDragging) return; ...; simulation.alpha(0.5).
LifeMove ==
    /\ gesture = "reposition"
    /\ mousemoving' = TRUE
    /\ alpha' = IF isDragging THEN AlphaDragging ELSE alpha
    /\ UNCHANGED <<gesture, dragCheck, isDragging, timerRunning, ticks, lifeVars,
                   lifeRest>>

\* dragended, dispatched by d3-drag's mouseup listener on the window: clears the
\* timer; after a drag, simulation.alpha(0.3).restart().
LifeRelease ==
    /\ gesture = "reposition"
    /\ gesture' = "idle"
    /\ dragCheck' = FALSE
    /\ isDragging' = FALSE
    /\ timerRunning' = (isDragging \/ timerRunning)
    /\ alpha' = IF isDragging THEN AlphaReheat ELSE alpha
    /\ mousemoving' = FALSE
    /\ UNCHANGED <<ticks, lifeVars, lifeRest>>

\* D3 canvas: a resize event of the window reaches debouncedResize.
LifeResize ==
    /\ simImpl = "d3"
    /\ ~tornDown
    /\ ~resizePending
    /\ resizePending' = TRUE
    /\ UNCHANGED <<gesture, dragCheck, isDragging, timerRunning, ticks, tornDown,
                   isRunning, isPaused, alpha, mousemoving, lifeRest>>

\* handleResize, 100 ms later: simulation.alpha(0.3).restart().
LifeResizeFires ==
    /\ resizePending
    /\ resizePending' = FALSE
    /\ timerRunning' = TRUE
    /\ alpha' = AlphaReheat
    /\ UNCHANGED <<gesture, dragCheck, isDragging, ticks, tornDown, isRunning,
                   isPaused, mousemoving, lifeRest>>

\* One tick of the running simulation.  Modular canvas: the tick listener stores a
\* new node array, Graph renders, and the effect of useGraphSimulation (its config
\* parameter defaults to a new {} in every render) stops and restarts the simulation.
LifeTick ==
    /\ timerRunning
    /\ ticks < MaxLifeTicks
    /\ ticks' = ticks + 1
    /\ alpha' = IF simImpl = "d3" THEN CooledAlpha(alpha, D3AlphaTarget, D3AlphaDecay)
                                  ELSE AlphaReheat
    /\ UNCHANGED <<gesture, dragCheck, isDragging, timerRunning, lifeVars, mousemoving,
                   lifeRest>>

\* The cleanup of the effect (the canvas is unmounted or the effect runs again).
\* D3 canvas: removeEventListener('resize'), simulationRef.current.stop(),
\* clearTimeout(resizeTimer).  Modular canvas: simulation.stop().
LifeTeardown ==
    /\ ~tornDown
    /\ tornDown' = TRUE
    /\ timerRunning' = FALSE
    /\ resizePending' = FALSE
    /\ ticks' = 0
    /\ UNCHANGED <<gesture, dragCheck, isDragging, isRunning, isPaused, alpha,
                   mousemoving, lifeRest>>

\* Modular canvas, the pause control while not paused: togglePause calls
\* pauseSimulation (simulation.stop(), setIsRunning(false)) and setIsPaused(true).
\* The state change renders Graph again; useGraphSimulation gets a new config
\* object, so its effects run: the cleanup stops the simulation and the effects
\* call simulation.alpha(0.3).restart().
LifePause ==
    /\ simImpl = "modular"
    /\ ~tornDown
    /\ ~isPaused
    /\ isPaused' = TRUE
    /\ isRunning' = FALSE
    /\ timerRunning' = TRUE
    /\ alpha' = AlphaReheat
    /\ UNCHANGED <<gesture, dragCheck, isDragging, ticks, tornDown, resizePending,
                   mousemoving, lifeRest>>

\* The pause control while paused: resumeSimulation (alpha(0.3).restart(),
\* setIsRunning(true)) and setIsPaused(false).
LifeResume ==
    /\ simImpl = "modular"
    /\ ~tornDown
    /\ isPaused
    /\ isPaused' = FALSE
    /\ isRunning' = TRUE
    /\ timerRunning' = TRUE
    /\ alpha' = AlphaReheat
    /\ UNCHANGED <<gesture, dragCheck, isDragging, ticks, tornDown, resizePending,
                   mousemoving, lifeRest>>

NextLife ==
    \/ LifePress
    \/ LifeDragCheckFires
    \/ LifeMove
    \/ LifeRelease
    \/ LifeResize
    \/ LifeResizeFires
    \/ LifeTick
    \/ LifeTeardown
    \/ LifePause
    \/ LifeResume

SpecLife == InitLife /\ [][NextLife]_vars

-----------------------------------------------------------------------------
(* SpecFetch: the two queries of the D3 canvas (part_007), the view the     *)
(* component returns and the simulation its effect creates.                *)

\* App.tsx: defaultOptions.queries.retry.
MaxRetries == 1

MaxFetchTicks == 3

\* The number of entities the server holds for an environment.
ServerCount(k) == IF k = "e1" THEN 2 ELSE 1

\* `data: entities = []`: the length of the cached list, 0 while there is none.
EntitiesLength(cache, k) == IF cache[k] = NoCache THEN 0 ELSE cache[k]

\* `data: frameElementsMap`: undefined while the frames query is disabled or has no
\* data for its key, the cached map otherwise ({} after a failed retrieval).
frameElementsMap(cache, fc, k) ==
    IF EntitiesLength(cache, k) = 0 \/ fc[k] = "none" THEN <<Undef>> ELSE <<k, fc[k]>>

\* react-query's isLoading: no data yet and a fetch (or its retry) under way.
isQueryLoading(phase, cache, k) ==
    cache[k] = NoCache /\ phase \in {"inflight", "retryWait"}

\* What the component returns; only "canvas" holds the svg element.
CanvasView(isL, err, phase, cache, k) ==
    IF isL \/ isQueryLoading(phase, cache, k) THEN "loading"
    ELSE IF err THEN "error"
    ELSE IF EntitiesLength(cache, k) = 0 THEN "empty"
    ELSE "canvas"

\* The dependencies of the simulation effect (the dimensions do not change here).
EffectDeps(cache, fc, k) == <<EntitiesLength(cache, k), frameElementsMap(cache, fc, k)>>

\* The simulation after a render: with unchanged dependencies the effect does not
\* run; otherwise the previous simulation is stopped and a new one is created when
\* the svg is in the document and there are nodes.
SimAfterEffect(sim, before, after, view, n) ==
    IF before = after THEN sim
    ELSE IF view = "canvas" /\ n > 0 THEN "running"
    ELSE IF sim = "running" THEN "stopped"
    ELSE sim

\* The component is mounted: the entities query starts its first fetch.
InitFetch ==
    /\ AdapterIdle
    /\ RefreshIdle
    /\ GestureIdle
    /\ AssignIdle
    /\ ViewIdle
    /\ RenderIdle
    /\ simImpl = "none"
    /\ alpha = 0
    /\ timerRunning = FALSE
    /\ ticks = 0
    /\ tornDown = FALSE
    /\ resizePending = FALSE
    /\ isRunning = FALSE
    /\ isPaused = FALSE
    /\ envKey = "e1"
    /\ entPhase = "inflight"
    /\ entCache = [k \in Envs |-> NoCache]
    /\ retriesLeft = MaxRetries
    /\ isLoading = TRUE
    /\ error = FALSE
    /\ framesFetching = FALSE
    /\ framesCache = [k \in Envs |-> "none"]
    /\ fetchSim = "none"
    /\ fetchTicks = 0
    /\ PinIdle
    /\ TouchIdle
    /\ SelIdle
    /\ LinkIdle

fetchRest ==
    <<adapterVars, simImpl, alpha, timerRunning, ticks, renderVars, tornDown,
      resizePending, isRunning, isPaused, refreshVars, gestureVars, assignVars,
      viewVars, pinVars, touchVars, selVars, linkVars>>

\* The entities request succeeds: the data is cached, `finally` clears isLoading, and
\* the frames query starts unless it holds data for these entities.
EntitiesOk ==
    /\ entPhase = "inflight"
    /\ entPhase' = "ok"
    /\ entCache' = [entCache EXCEPT ![envKey] = ServerCount(envKey)]
    /\ retriesLeft' = 0
    /\ isLoading' = FALSE
    /\ framesFetching' = (framesFetching \/ framesCache[envKey] = "none")
    /\ fetchSim' = SimAfterEffect(fetchSim, EffectDeps(entCache, framesCache, envKey),
                                  EffectDeps(entCache', framesCache, envKey),
                                  CanvasView(FALSE, error, "ok", entCache', envKey),
                                  EntitiesLength(entCache', envKey))
    /\ UNCHANGED <<envKey, error, framesCache, fetchTicks, fetchRest>>

\* The entities request fails: `catch` sets the error, `finally` clears isLoading, and
\* react-query schedules a retry while it has one left.
EntitiesFail ==
    /\ entPhase = "inflight"
    /\ error' = TRUE
    /\ isLoading' = FALSE
    /\ IF retriesLeft > 0
       THEN /\ entPhase' = "retryWait"
            /\ retriesLeft' = retriesLeft - 1
       ELSE /\ entPhase' = "failed"
            /\ retriesLeft' = 0
    /\ UNCHANGED <<envKey, entCache, framesFetching, framesCache, fetchSim, fetchTicks,
                   fetchRest>>

\* The retry runs the query function again: setIsLoading(true), setError(null).
RetryFires ==
    /\ entPhase = "retryWait"
    /\ entPhase' = "inflight"
    /\ isLoading' = TRUE
    /\ error' = FALSE
    /\ UNCHANGED <<envKey, entCache, retriesLeft, framesFetching, framesCache, fetchSim,
                   fetchTicks, fetchRest>>

\* react-query fetches the settled query again (the network is back, the window has the
\* focus again under a default client): the key and the dependencies of the effect
\* are unchanged.
Refetch ==
    /\ entPhase \in {"ok", "failed"}
    /\ entPhase' = "inflight"
    /\ retriesLeft' = MaxRetries
    /\ isLoading' = TRUE
    /\ error' = FALSE
    /\ UNCHANGED <<envKey, entCache, framesFetching, framesCache, fetchSim, fetchTicks,
                   fetchRest>>

\* The environment prop changes.  The first render with the new key still has the old
\* isLoading and error states and shows the cached entities of that key, and its
\* effects run; the query function then starts and sets isLoading.
SwitchEnv ==
    \E k \in Envs \ {envKey} :
        /\ entPhase \in {"ok", "failed"}
        /\ ~framesFetching
        /\ envKey' = k
        /\ entPhase' = "inflight"
        /\ retriesLeft' = MaxRetries
        /\ isLoading' = TRUE
        /\ error' = FALSE
        /\ framesFetching' = (EntitiesLength(entCache, k) > 0 /\ framesCache[k] = "none")
        /\ fetchSim' = SimAfterEffect(fetchSim, EffectDeps(entCache, framesCache, envKey),
                                      EffectDeps(entCache, framesCache, k),
                                      CanvasView(isLoading, error, "inflight", entCache, k),
                                      EntitiesLength(entCache, k))
        /\ UNCHANGED <<entCache, framesCache, fetchTicks, fetchRest>>

\* The frames of the entities arrive.
FramesOk ==
    /\ framesFetching
    /\ framesFetching' = FALSE
    /\ framesCache' = [framesCache EXCEPT ![envKey] = "ok"]
    /\ fetchSim' = SimAfterEffect(fetchSim, EffectDeps(entCache, framesCache, envKey),
                                  EffectDeps(entCache, framesCache', envKey),
                                  CanvasView(isLoading, error, entPhase, entCache, envKey),
                                  EntitiesLength(entCache, envKey))
    /\ UNCHANGED <<envKey, entPhase, entCache, retriesLeft, isLoading, error, fetchTicks,
                   fetchRest>>

\* The retrieval of the frames fails: the query function catches the error and returns
\* a map without the frame, which is cached like any result.
FramesFail ==
    /\ framesFetching
    /\ framesFetching' = FALSE
    /\ framesCache' = [framesCache EXCEPT ![envKey] = "failed"]
    /\ fetchSim' = SimAfterEffect(fetchSim, EffectDeps(entCache, framesCache, envKey),
                                  EffectDeps(entCache, framesCache', envKey),
                                  CanvasView(isLoading, error, entPhase, entCache, envKey),
                                  EntitiesLength(entCache, envKey))
    /\ UNCHANGED <<envKey, entPhase, entCache, retriesLeft, isLoading, error, fetchTicks,
                   fetchRest>>

\* A tick of the running simulation: with alphaTarget 0.1 it never cools down.
FetchTick ==
    /\ fetchSim = "running"
    /\ fetchTicks < MaxFetchTicks
    /\ fetchTicks' = fetchTicks + 1
    /\ UNCHANGED <<envKey, entPhase, entCache, retriesLeft, isLoading, error,
                   framesFetching, framesCache, fetchSim, fetchRest>>

NextFetch ==
    \/ EntitiesOk
    \/ EntitiesFail
    \/ RetryFires
    \/ Refetch
    \/ SwitchEnv
    \/ FramesOk
    \/ FramesFail
    \/ FetchTick

SpecFetch == InitFetch /\ [][NextFetch]_vars

-----------------------------------------------------------------------------
(* SpecPins: the pins drawn around a node whose frame has frameLen elements, *)
(* at creation of the visual and on every tick.                            *)

MaxPins == 4

MaxPinTicks == 5

\* r of the node's circle (both canvases).
NodeCircleRadius == 10

\* part_007: the distance the pins are drawn at.
D3PinDistance == 25

\* part_017: node.radius || 20 ; the adapter of part_021 sets no radius.
DefaultRadius == 20

\* part_017: the offset added to the radius.
PinOffset == 15

\* A pin at angle (i / max(1, n)) * 2 pi - pi / 2 and distance d: the angle is kept
\* as the fraction num / den of a full turn.
PinAt(i, n, d) ==
    LET m == IF n < 1 THEN 1 ELSE n
    IN [num |-> 4 * i - m, den |-> 4 * m, dist |-> d]

\* part_007, nodeEnter.each: Number(frames[0]) is NaN for a frame object, and the
\* node is then drawn without pins.
D3CreatePins(form, n) ==
    IF form = "object" THEN <<>>
    ELSE [i \in 1..n |-> PinAt(i - 1, n, D3PinDistance)]

\* part_007, tick listener: the frame id is taken from a number or from the id of a
\* frame object (a string is skipped); pin index of the frame is the index-th
\* circle.io-pin of the group, when there is one.
D3TickPins(form, n, drawn) ==
    IF form = "string" THEN drawn
    ELSE [i \in DOMAIN drawn |-> IF i <= n THEN PinAt(i - 1, n, D3PinDistance)
                                           ELSE drawn[i]]

\* part_017: the pins of a render.
calculatePinPositions(n, radius) ==
    IF n = 0 THEN <<>>
    ELSE [i \in 1..n |-> PinAt(i - 1, n, radius + PinOffset)]

InitPins ==
    /\ AdapterIdle
    /\ RefreshIdle
    /\ GestureIdle
    /\ AssignIdle
    /\ ViewIdle
    /\ RenderIdle
    /\ simImpl = "none"
    /\ alpha = 0
    /\ timerRunning = FALSE
    /\ ticks = 0
    /\ tornDown = FALSE
    /\ resizePending = FALSE
    /\ isRunning = FALSE
    /\ isPaused = FALSE
    /\ FetchIdle
    /\ TouchIdle
    /\ SelIdle
    /\ LinkIdle
    /\ pinImpl \in {"d3", "modular"}
    /\ frameForm \in IF pinImpl = "d3" THEN {"number", "string", "object"} ELSE {"object"}
    /\ frameLen \in 0..MaxPins
    /\ pinPhase = "new"
    /\ ioPins = <<>>
    /\ pinTicks = 0

pinRest ==
    <<adapterVars, simImpl, alpha, timerRunning, ticks, renderVars, tornDown,
      resizePending, isRunning, isPaused, refreshVars, gestureVars, assignVars,
      viewVars, fetchVars, touchVars, selVars, linkVars>>

\* The visual of the node is created, with the frame data loaded.
CreatePins ==
    /\ pinPhase = "new"
    /\ pinPhase' = "created"
    /\ ioPins' = IF pinImpl = "d3" THEN D3CreatePins(frameForm, frameLen)
                 ELSE calculatePinPositions(frameLen, DefaultRadius)
    /\ UNCHANGED <<pinImpl, frameForm, frameLen, pinTicks, pinRest>>

\* A tick: the D3 listener rewrites cx, cy of the pins, the modular canvas renders
\* the nodes again.
PinsTick ==
    /\ pinPhase = "created"
    /\ pinTicks < MaxPinTicks
    /\ pinTicks' = pinTicks + 1
    /\ ioPins' = IF pinImpl = "d3" THEN D3TickPins(frameForm, frameLen, ioPins)
                 ELSE calculatePinPositions(frameLen, DefaultRadius)
    /\ UNCHANGED <<pinImpl, frameForm, frameLen, pinPhase, pinRest>>

NextPins ==
    \/ CreatePins
    \/ PinsTick

SpecPins == InitPins /\ [][NextPins]_vars

-----------------------------------------------------------------------------
(* SpecTouch: drag gestures of up to two pointers (the mouse, or two touches) *)
(* on two nodes, and the pins fx/fy they set and release.                  *)

Pointers == 1..2

TouchNodes == 1..2

\* event.active of the start event: the gestures of the same drag behaviour that are
\* already active.  The D3 canvas calls one behaviour on all nodes; the modular canvas
\* makes a behaviour for each node element.
ActiveAtStart(impl, tn, n) ==
    IF impl = "d3" THEN Cardinality({q \in Pointers : tn[q] # 0})
    ELSE Cardinality({q \in Pointers : tn[q] = n})

InitTouch ==
    /\ AdapterIdle
    /\ RefreshIdle
    /\ GestureIdle
    /\ AssignIdle
    /\ ViewIdle
    /\ RenderIdle
    /\ simImpl = "none"
    /\ alpha = 0
    /\ timerRunning = FALSE
    /\ ticks = 0
    /\ tornDown = FALSE
    /\ resizePending = FALSE
    /\ isRunning = FALSE
    /\ isPaused = FALSE
    /\ FetchIdle
    /\ PinIdle
    /\ SelIdle
    /\ LinkIdle
    /\ touchImpl \in {"d3", "modular"}
    /\ touchNode = [p \in Pointers |-> 0]
    /\ timerNode = [p \in Pointers |-> 0]
    /\ dragCheckOf = 0
    /\ touchDragging = FALSE
    /\ touchBound = [p \in Pointers |-> FALSE]
    /\ touchPinned = [n \in TouchNodes |-> FALSE]
    /\ touchSelected = 0

touchRest ==
    <<adapterVars, simImpl, alpha, timerRunning, ticks, renderVars, tornDown,
      resizePending, isRunning, isPaused, refreshVars, gestureVars, assignVars,
      viewVars, fetchVars, pinVars, selVars, linkVars>>

\* A pointer goes down on a node.  part_007, dragstarted: the timer is armed and its
\* handle stored in dragCheck.  part_017, dragStarted: returns at once unless another
\* gesture is active, otherwise registers the drag and end listeners.
TouchStart ==
    \E p \in Pointers : \E n \in TouchNodes :
        /\ touchNode[p] = 0
        /\ touchNode' = [touchNode EXCEPT ![p] = n]
        /\ IF touchImpl = "d3"
           THEN /\ timerNode' = [timerNode EXCEPT ![p] = n]
                /\ dragCheckOf' = p
                /\ UNCHANGED touchBound
           ELSE /\ touchBound' =
                       [touchBound EXCEPT ![p] = ActiveAtStart(touchImpl, touchNode, n) # 0]
                /\ UNCHANGED <<timerNode, dragCheckOf>>
        /\ UNCHANGED <<touchImpl, touchDragging, touchPinned, touchSelected, touchRest>>

\* part_007: the callback of a pending timer runs; it pins its node unless isDragging
\* is already set.
TouchTimerFires ==
    \E p \in Pointers :
        /\ timerNode[p] # 0
        /\ timerNode' = [timerNode EXCEPT ![p] = 0]
        /\ touchDragging' = TRUE
        /\ touchPinned' = IF touchDragging THEN touchPinned
                          ELSE [touchPinned EXCEPT ![timerNode[p]] = TRUE]
        /\ UNCHANGED <<touchImpl, touchNode, dragCheckOf, touchBound, touchSelected,
                       touchRest>>

\* A pointer that is down moves.  part_007, dragged: pins the node at the pointer when
\* isDragging is set.  part_017: the drag listener, when registered, pins the node.
TouchMove ==
    \E p \in Pointers :
        /\ touchNode[p] # 0
        /\ touchPinned' =
               IF (touchImpl = "d3" /\ touchDragging) \/ (touchImpl = "modular" /\ touchBound[p])
               THEN [touchPinned EXCEPT ![touchNode[p]] = TRUE]
               ELSE touchPinned
        /\ UNCHANGED <<touchImpl, touchNode, timerNode, dragCheckOf, touchDragging,
                       touchBound, touchSelected, touchRest>>

\* A pointer goes up.  part_007, dragended: clearTimeout(dragCheck), then the click
\* branch when isDragging is not set, else isDragging is cleared and the node is
\* released.  part_017: the end listener, when registered, reports the click and the
\* end of the drag and leaves fx and fy as they are.
TouchEnd ==
    \E p \in Pointers :
        /\ touchNode[p] # 0
        /\ touchNode' = [touchNode EXCEPT ![p] = 0]
        /\ IF touchImpl = "d3"
           THEN /\ timerNode' = [q \in Pointers |->
                                     IF q = dragCheckOf THEN 0 ELSE timerNode[q]]
                /\ touchDragging' = FALSE
                /\ touchPinned' = IF touchDragging
                                  THEN [touchPinned EXCEPT ![touchNode[p]] = FALSE]
                                  ELSE touchPinned
                /\ touchSelected' =
                       IF touchDragging THEN touchSelected
                       ELSE IF touchSelected = touchNode[p] THEN 0 ELSE touchNode[p]
                /\ UNCHANGED touchBound
           ELSE /\ touchBound' = [touchBound EXCEPT ![p] = FALSE]
                /\ touchSelected' = IF touchBound[p] THEN touchNode[p] ELSE touchSelected
                /\ UNCHANGED <<timerNode, touchDragging, touchPinned>>
        /\ UNCHANGED <<touchImpl, dragCheckOf, touchRest>>

NextTouch ==
    \/ TouchStart
    \/ TouchTimerFires
    \/ TouchMove
    \/ TouchEnd

SpecTouch == InitTouch /\ [][NextTouch]_vars

-----------------------------------------------------------------------------
(* SpecSelect: a mounted D3 canvas whose selection changes while the        *)
(* simulation ticks and the user zooms.                                    *)

MaxSelSims == 3

MaxSelTicks == 3

ZoomSteps == 0..2

InitSelect ==
    /\ AdapterIdle
    /\ RefreshIdle
    /\ GestureIdle
    /\ AssignIdle
    /\ ViewIdle
    /\ RenderIdle
    /\ simImpl = "none"
    /\ alpha = 0
    /\ timerRunning = FALSE
    /\ ticks = 0
    /\ tornDown = FALSE
    /\ resizePending = FALSE
    /\ isRunning = FALSE
    /\ isPaused = FALSE
    /\ FetchIdle
    /\ PinIdle
    /\ TouchIdle
    /\ LinkIdle
    /\ selImpl \in {"part_007", "GraphViewD3.tsx"}
    /\ selNode = 0
    /\ selSims = 1
    /\ selAlpha = AlphaOne
    /\ selBuilds = 1
    /\ selZoom = 0
    /\ selTicks = 0

selRest ==
    <<adapterVars, simImpl, alpha, timerRunning, ticks, renderVars, tornDown,
      resizePending, isRunning, isPaused, refreshVars, gestureVars, assignVars,
      viewVars, fetchVars, pinVars, touchVars, linkVars>>

\* A click on node n: setSelectedNode(d === selectedNode ? null : d).  In
\* GraphViewD3.tsx selectedNode is a dependency of the simulation effect, which runs
\* again: the simulation is stopped and a new one created with alpha(1), every element
\* of the svg is removed and built again, and the zoom gets its initial transform.
SelectClick ==
    \E n \in 1..2 :
        /\ selNode' = IF selNode = n THEN 0 ELSE n
        /\ IF selImpl = "GraphViewD3.tsx"
           THEN /\ selSims < MaxSelSims
                /\ selSims' = selSims + 1
                /\ selAlpha' = AlphaOne
                /\ selBuilds' = selBuilds + 1
                /\ selZoom' = 0
           ELSE UNCHANGED <<selSims, selAlpha, selBuilds, selZoom>>
        /\ UNCHANGED <<selImpl, selTicks, selRest>>

\* A tick of the simulation.
SelectTick ==
    /\ selTicks < MaxSelTicks
    /\ selTicks' = selTicks + 1
    /\ selAlpha' = CooledAlpha(selAlpha, D3AlphaTarget, D3AlphaDecay)
    /\ UNCHANGED <<selImpl, selNode, selSims, selBuilds, selZoom, selRest>>

\* The user zooms with the wheel.
SelectZoom ==
    \E z \in ZoomSteps \ {selZoom} :
        /\ selZoom' = z
        /\ UNCHANGED <<selImpl, selNode, selSims, selAlpha, selBuilds, selTicks, selRest>>

NextSelect ==
    \/ SelectClick
    \/ SelectTick
    \/ SelectZoom

SpecSelect == InitSelect /\ [][NextSelect]_vars

-----------------------------------------------------------------------------
(* SpecLinks: the link list of the hook useGraphData under addLink,         *)
(* removeLink and removeNode, with renders in between.                     *)

LinkNodeIds == {"a", "b", "c"}

MaxLinks == 2

\* link.source === s && link.target === t, or the other way round.
Joins(link, s, t) ==
    \/ link.source = s /\ link.target = t
    \/ link.source = t /\ link.target = s

\* links.some(...)
linkExists(links, s, t) == \E i \in DOMAIN links : Joins(links[i], s, t)

\* prev.filter(pred)
RECURSIVE FilterLinks(_, _, _)
FilterLinks(links, s, t) ==
    IF links = <<>> THEN <<>>
    ELSE IF Joins(Head(links), s, t) THEN FilterLinks(Tail(links), s, t)
    ELSE <<Head(links)>> \o FilterLinks(Tail(links), s, t)

\* prev.filter(link => link.source !== nodeId && link.target !== nodeId)
RECURSIVE WithoutNode(_, _)
WithoutNode(links, n) ==
    IF links = <<>> THEN <<>>
    ELSE IF Head(links).source = n \/ Head(links).target = n
    THEN WithoutNode(Tail(links), n)
    ELSE <<Head(links)>> \o WithoutNode(Tail(links), n)

InitLinks ==
    /\ AdapterIdle
    /\ RefreshIdle
    /\ GestureIdle
    /\ AssignIdle
    /\ ViewIdle
    /\ RenderIdle
    /\ simImpl = "none"
    /\ alpha = 0
    /\ timerRunning = FALSE
    /\ ticks = 0
    /\ tornDown = FALSE
    /\ resizePending = FALSE
    /\ isRunning = FALSE
    /\ isPaused = FALSE
    /\ FetchIdle
    /\ PinIdle
    /\ TouchIdle
    /\ SelIdle
    /\ hookLinks \in {<<>>, <<[source |-> "a", target |-> "b"]>>}
    /\ closureLinks = hookLinks
    /\ lastAdd = NoAdd

linkRest ==
    <<adapterVars, simImpl, alpha, timerRunning, ticks, renderVars, tornDown,
      resizePending, isRunning, isPaused, refreshVars, gestureVars, assignVars,
      viewVars, fetchVars, pinVars, touchVars, selVars>>

\* addLink(source, target): the test reads the links of the render the callback was
\* made in; the update appends to the state as it is when the update is applied.
addLink ==
    \E s \in LinkNodeIds : \E t \in LinkNodeIds \ {s} :
        /\ Len(hookLinks) < MaxLinks
        /\ IF linkExists(closureLinks, s, t)
           THEN /\ lastAdd' = [existed |-> linkExists(hookLinks, s, t), returned |-> "null"]
                /\ UNCHANGED hookLinks
           ELSE /\ lastAdd' = [existed |-> linkExists(hookLinks, s, t), returned |-> "link"]
                /\ hookLinks' = Append(hookLinks, [source |-> s, target |-> t])
        /\ UNCHANGED <<closureLinks, linkRest>>

\* removeLink(source, target)
removeLink ==
    \E s \in LinkNodeIds : \E t \in LinkNodeIds \ {s} :
        /\ hookLinks' = FilterLinks(hookLinks, s, t)
        /\ UNCHANGED <<closureLinks, lastAdd, linkRest>>

\* removeNode(nodeId)
removeNode ==
    \E n \in LinkNodeIds :
        /\ hookLinks' = WithoutNode(hookLinks, n)
        /\ UNCHANGED <<closureLinks, lastAdd, linkRest>>

\* The component renders: useCallback makes addLink anew, over the current links.
RenderHook ==
    /\ closureLinks # hookLinks
    /\ closureLinks' = hookLinks
    /\ UNCHANGED <<hookLinks, lastAdd, linkRest>>

NextLinks ==
    \/ addLink
    \/ removeLink
    \/ removeNode
    \/ RenderHook

SpecLinks == InitLinks /\ [][NextLinks]_vars

-----------------------------------------------------------------------------
(* Claims about the payload -> node/link conversion (SpecAdapter).         *)

\* The node id a canvas gives to the entity with id v.
NodeIdOf(impl, v) == IF impl = "modular" THEN "entity-" \o TemplateStr(v) ELSE v

PayloadIds(entities) == {entities[i].id : i \in DOMAIN entities}

\* The elements of the frames an entity carries (frames and primary_frame).
FrameElementsOf(e) == e.frames.elements \o e.primary_frame.elements

\* The links the specification asks for: one per frame element whose value is the id
\* of another entity of the payload, labelled with the element name.
ExpectedLinksOf(impl, entities, e) ==
    LET link(el) == IF el.value \in PayloadIds(entities) /\ el.value # e.id
                    THEN <<[source |-> NodeIdOf(impl, e.id),
                            target |-> NodeIdOf(impl, el.value),
                            kind |-> "element", label |-> el.name]>>
                    ELSE <<>>
    IN Concat([i \in DOMAIN FrameElementsOf(e) |-> link(FrameElementsOf(e)[i])])

ExpectedLinks(impl, entities) ==
    Concat([i \in DOMAIN entities |-> ExpectedLinksOf(impl, entities, entities[i])])

\* C2: in every derived node/link model, the source and the target of every link are
\* ids of nodes of the same model (no dangling link).
C2_NoDanglingLinks ==
    adapterPc = "derived" =>
        \A i \in DOMAIN derived.links :
            /\ derived.links[i].source \in NodeIds(derived.nodes)
            /\ derived.links[i].target \in NodeIds(derived.nodes)

\* C3: the number of derived nodes equals the number of distinct, non-empty entity
\* ids of the payload.
C3_NodeCountIsDistinctIds ==
    adapterPc = "derived" =>
        Len(derived.nodes) = Cardinality(PayloadIds(payload) \ {Undef, ""})

\* C4: the derived links are exactly the links of the frame elements whose value is
\* the id of another entity, from owner to referenced node, of kind "element" and
\* labelled with the element name (Jury/Player: one link 2 -> 1 labelled addressee).
C4_ElementLinksExactly ==
    adapterPc = "derived" =>
        /\ Len(derived.links) = Len(ExpectedLinks(derived.impl, payload))
        /\ SeqRange(derived.links) = SeqRange(ExpectedLinks(derived.impl, payload))

-----------------------------------------------------------------------------
(* Claims about the cooling of the simulation (SpecSim).                   *)

\* Geometric decay towards 0: alpha after one tick, and after eight ticks.
Geometric1(a, decay) == CooledAlpha(a, 0, decay)

Geometric2(a, decay) == Geometric1(Geometric1(a, decay), decay)

Geometric4(a, decay) == Geometric2(Geometric2(a, decay), decay)

Geometric8(a, decay) == Geometric4(Geometric4(a, decay), decay)

RECURSIVE GeometricTicks(_, _)
\* The number of ticks after which an alpha that decays geometrically by `decay`
\* (towards 0) is below alphaMin.  Alpha only falls, so while it is still hot after
\* seven more ticks the count advances by eight at once.
GeometricTicks(a, decay) ==
    IF a < AlphaMin THEN 0
    ELSE IF Geometric4(Geometric2(Geometric1(a, decay), decay), decay) >= AlphaMin
    THEN 8 + GeometricTicks(Geometric8(a, decay), decay)
    ELSE 1 + GeometricTicks(Geometric1(a, decay), decay)

\* C5: left alone, repeated ticking drives alpha below alphaMin within the bounded
\* number of ticks that the decay rate fixes, and ticking has then stopped.
C5_CoolsAndStops ==
    ticks >= GeometricTicks(AlphaOne, AlphaDecayOf(simImpl)) =>
        (alpha < AlphaMin /\ ~timerRunning)

-----------------------------------------------------------------------------
(* Claims about data refreshes (SpecRefresh).                              *)

\* C1: on every data refresh, a node whose id occurs in the previous and in the new
\* snapshot has the same position after reconciliation as before it.
C1_PositionsPreserved ==
    [][snapshot' # snapshot =>
          \A i \in DOMAIN live : \A j \in DOMAIN live' :
              live[i].id = live'[j].id => live'[j].pos = live[i].pos]_vars

\* C18: on every new snapshot, no visual is created for an id that was rendered
\* before and is in the new snapshot, and the visual of such an id is still there
\* afterwards: only ids that left lose their visual, only new ids get one.
C18_NoRecreation ==
    [][snapshot' # snapshot =>
          /\ created' \cap (rendered \cap SeqRange(snapshot')) = {}
          /\ (rendered \cap SeqRange(snapshot')) \subseteq rendered']_vars

\* C19: once a refresh has been reconciled, the rendered ids are exactly the ids of
\* the newest snapshot.
C19_RenderedIsSnapshot == rendered = SeqRange(snapshot)

-----------------------------------------------------------------------------
(* Claims about pointer gestures (SpecGesture).                            *)

\* C6: when a drag of node A without the modifier is released over another node B,
\* A was pinned to the pointer, the release unpins it, and the prompt is not opened.
C6_DragRepositions ==
    [][(/\ gesture = "reposition"
        /\ gesture' = "idle"
        /\ mousemoving
        /\ OverOther(graphNodes, gestureNode, pointer))
           => (/\ graphNodes[gestureNode].fxy = <<pointer.x, pointer.y>>
               /\ graphNodes'[gestureNode].fxy = <<>>
               /\ ~showAssignmentDialog')]_vars

C8_DropOpensPrompt ==
    [][(/\ gesture = "assign"
        /\ gesture' = "idle"
        /\ mousemoving
        /\ OverOther(graphNodes, gestureNode, pointer))
           => (/\ showAssignmentDialog'
               /\ assignmentData' # <<>>
               /\ assignmentData'.frameId = graphNodes[gestureNode].id
               /\ \E t \in DOMAIN graphNodes :
                      /\ t # gestureNode
                      /\ Dist2(graphNodes[t], pointer) < HitRadius * HitRadius
                      /\ assignmentData'.elementId = graphNodes[t].id)]_vars

\* C13: a click on a node (press and release without a move, before the timer fired)
\* selects the node when it was not selected and deselects it when it was, and hands
\* the same value to the entity-selected callback.
C13_ClickTogglesSelection ==
    [][(/\ gesture = "reposition"
        /\ gesture' = "idle"
        /\ ~mousemoving
        /\ ~isDragging)
           => (/\ selectedNode' =
                      IF selectedNode = graphNodes[gestureNode].id
                      THEN "" ELSE graphNodes[gestureNode].id
               /\ selectedEntity' = selectedNode')]_vars

\* C15: after every step that changes the selection, the links drawn highlighted are
\* exactly the links whose source or target is the selected node (none when nothing
\* is selected), whichever handler changed the selection.
C15_HighlightFollowsSelection ==
    [][selectedNode' # selectedNode
           => highlighted' = IncidentLinks(graphLinks', selectedNode')]_vars

-----------------------------------------------------------------------------
(* Claims about the outcome of a confirmed assignment (SpecAssign).        *)

\* C9: the step in which a request fails raises an error notification and leaves the
\* canvas's nodes (with their positions), links and data, the host's current
\* environment and the selected entity as they were.
C9_FailureMutatesNothing ==
    [][failCount' = failCount + 1 =>
          (/\ toasts' = Append(toasts, "error")
           /\ graphNodes' = graphNodes
           /\ graphLinks' = graphLinks
           /\ queryData' = queryData
           /\ selectedNode' = selectedNode
           /\ currentEnv' = currentEnv
           /\ selectedEntity' = selectedEntity)]_vars

\* C9 (case reached): a request failed while an entity was selected, and the error
\* notification is the latest one.
C9_Witness ==
    /\ failCount > 0
    /\ toasts # <<>>
    /\ Last(toasts) = "error"
    /\ selectedEntity # ""

\* C10: the step in which a request succeeds raises a success notification and starts
\* a fetch of the graph data of the current environment.
C10_SuccessRefetches ==
    [][okCount' = okCount + 1 =>
          (/\ toasts' = Append(toasts, "success")
           /\ graphFetching')]_vars

\* C11: once a submission of a non-empty role has settled (the handler resolved or
\* rejected, or none was supplied), the prompt is closed and no assignment is stored.
C11_SubmitLeadsToIdle ==
    submitPhase = "settled" => (~showAssignmentDialog /\ assignmentData = <<>>)

\* C12: the step that cancels the prompt leaves the gesture idle with no assignment
\* stored, raises no notification and sends no request.
C12_CancelClearsIntent ==
    [][(/\ DialogRendered
        /\ ~showAssignmentDialog'
        /\ okCount' = okCount
        /\ failCount' = failCount)
           => (/\ gesture' = "idle"
               /\ assignmentData' = <<>>
               /\ toasts' = toasts
               /\ requests' = requests)]_vars

-----------------------------------------------------------------------------
(* Claims about the viewport (SpecViewport).                               *)

\* C16: whenever no transition of the zoom transform is running, the scale of the
\* viewport lies within the scale extent [0.1, 4].
C16_ScaleWithinExtent ==
    zoomTween = <<>> => transform.k \in MinScale..MaxScale

-----------------------------------------------------------------------------
(* Claims about clicks (SpecClick).                                        *)

\* C14: a click on the background leaves nothing selected, in the canvas and in the
\* host (the entity-selected callback got null), and a click on a node does not run
\* the background handling.
C14_BackgroundClickClears ==
    [][(press # NoPress /\ press' = NoPress)
           => IF press = "background"
              THEN selectedNode' = "" /\ selectedEntity' = ""
              ELSE ~backgroundRan']_vars

-----------------------------------------------------------------------------
(* Claims about drawing on a tick (SpecTick).                              *)

\* C20: after every tick, every node's visual is shown where the current zoom
\* transform puts the node's simulation position, and the link's line runs between
\* the positions of its source and its target.
C20_TickPlacesVisuals ==
    [][simPos' # simPos =>
          /\ \A i \in TickNodes :
                 ApplyTransform(nodesTransform', nodeAttr'[i])
                     = ApplyTransform(transform', simPos'[i])
          /\ linkAttr' = LinkEnds(simPos')]_vars

-----------------------------------------------------------------------------
(* Claims about the life of a simulation (SpecLife).                       *)

\* C21: once the effect that created a simulation has been cleaned up, the
\* simulation's timer is stopped and the simulation performs no tick, whatever
\* timers and listeners were registered before.
C21_TornDownStaysStopped == tornDown => (~timerRunning /\ ticks = 0)

\* C28: while the pause control shows the simulation as paused, the simulation
\* performs no tick.
C28_PausedDoesNotTick ==
    [][(isPaused /\ isPaused') => ticks' = ticks]_vars

-----------------------------------------------------------------------------
(* Claims about failures of the conversion (SpecAdapter).                  *)

\* The entries of a payload that carry an id.
WithId(entities) == {i \in DOMAIN entities : entities[i].id # Undef}

\* C23: the conversion of any payload completes without raising an error, and the
\* derived node set holds one node for each entry that has an id and none for an
\* entry without one.
C23_ConversionNeverFails ==
    adapterPc = "derived" =>
        /\ ~derived.threw
        /\ Len(derived.nodes) = Cardinality(WithId(payload))

-----------------------------------------------------------------------------
(* Claims about failed retrievals (SpecFetch).                             *)

\* The view the D3 canvas shows.
FetchView == CanvasView(isLoading, error, entPhase, entCache, envKey)

\* The last retrieval of the entities, or of the frames of the shown entities, failed.
RetrievalFailed == entPhase = "failed" \/ framesCache[envKey] = "failed"

\* C22: whenever the retrieval of the entities or of the frame data has failed the
\* canvas shows the error view, and no simulation is running while the error view
\* is shown.
C22_FailureShowsErrorAndNoSimulation ==
    /\ RetrievalFailed => FetchView = "error"
    /\ FetchView = "error" => fetchSim # "running"

-----------------------------------------------------------------------------
(* Claims about the pins (SpecPins).                                       *)

\* C24: once the visual of a node exists, and after every tick, the node has one pin
\* per element of its frame, pin i at angle (i / n) * 2 pi - pi / 2 and at the
\* distance of the circle's radius plus 15 from the centre.
C24_PinsOnCircle ==
    pinPhase = "created" =>
        ioPins = [i \in 1..frameLen |->
                      PinAt(i - 1, frameLen, NodeCircleRadius + PinOffset)]

-----------------------------------------------------------------------------
(* Claims about what counts as a click (SpecGesture).                      *)

\* C25: a press on a node released without a pointer move and before the 100 ms
\* timer fired is a click: the selection is toggled and no pin changes.  Every other
\* press and release on a node is a drag and leaves the selection as it was.
C25_ClickExactlyWhenStillAndQuick ==
    [][(gesture = "reposition" /\ gesture' = "idle")
          => /\ (~mousemoving /\ ~isDragging)
                    => /\ selectedNode' = IF selectedNode = graphNodes[gestureNode].id
                                          THEN "" ELSE graphNodes[gestureNode].id
                       /\ Pins(graphNodes') = Pins(graphNodes)
             /\ (mousemoving \/ isDragging) => selectedNode' = selectedNode]_vars

-----------------------------------------------------------------------------
(* Claims about pins outside gestures (SpecTouch).                         *)

\* C29: whenever no drag gesture is in progress on any node, no node is pinned.
C29_NoPinOutsideGesture ==
    (\A p \in Pointers : touchNode[p] = 0) => \A n \in TouchNodes : ~touchPinned[n]

-----------------------------------------------------------------------------
(* Claims about repeated submissions (SpecAssign).                         *)

\* C26: the assignment handler is not invoked again for a prompt while the submission
\* made from it is still pending.
C26_SubmitOncePerPrompt ==
    [][submitted' > submitted => submitPhase # "pending"]_vars

-----------------------------------------------------------------------------
(* Claims about selection changes (SpecSelect).                            *)

\* C27: a step that changes the selected node creates no simulation, leaves alpha as
\* it is, builds no element anew and leaves the node positions and the viewport
\* transform as they are.
C27_SelectionOnlyRestyles ==
    [][selNode' # selNode
          => /\ selSims' = selSims
             /\ selAlpha' = selAlpha
             /\ selBuilds' = selBuilds
             /\ selTicks' = selTicks
             /\ selZoom' = selZoom]_vars

-----------------------------------------------------------------------------
(* Claims about the link list of the hook (SpecLinks).                     *)

\* C30: no two links of the hook join the same unordered pair of nodes, and an addLink
\* call for a pair that a link already joined returned null.
C30_NoParallelLinks ==
    /\ \A i, j \in DOMAIN hookLinks :
           i # j => ~Joins(hookLinks[i], hookLinks[j].source, hookLinks[j].target)
    /\ lastAdd.existed => lastAdd.returned = "null"

====
